---- MODULE Spec2Model ----
(***************************************************************************)
(* A model of the erki_boy emulator core: the register file and flag       *)
(* byte, the instruction decoder, the memory bus with its timer, divider   *)
(* and pixel-pipeline clock, and the CPU's step() with HALT and interrupt  *)
(* dispatch.  Values keep the widths of the Rust source (u8, u16).         *)
(***************************************************************************)
EXTENDS Integers, Sequences, FiniteSets, TLC

VARIABLES
  cpu,      \* CPU: is_halted, interrupt_enabled, pc, sp, registers
  bus,      \* MemoryBus: memories, timer, divider, interrupts, gpu
  fatal,    \* "none", or the panic that stopped the core
  nsteps,   \* number of operations performed so far (bounded)
  obs,      \* what the last operation did (history, not program state)
  prev,     \* obs of the operation before the last one
  probe     \* input and result of the last pure-function application

vars == <<cpu, bus, fatal, nsteps, obs, prev, probe>>

Byte == 0..255
Word == 0..65535

\* Option::None (an undefined opcode, an absent boot image)
None == <<>>

---------------------------------------------------------------------------
(* Fixed-width arithmetic of the source: u8/u16 wrapping and bit operators *)

wrapping_add16(x, y) == (x + y) % 65536
wrapping_sub16(x, y) == (x - y + 65536) % 65536
wrapping_add8(x, y) == (x + y) % 256

Shr(x, n) == x \div (2 ^ n)
Shl8(x, n) == (x * (2 ^ n)) % 256
Shl16(x, n) == (x * (2 ^ n)) % 65536

RECURSIVE BitAnd(_, _)
BitAnd(x, y) ==
  IF x = 0 \/ y = 0 THEN 0
  ELSE (x % 2) * (y % 2) + 2 * BitAnd(x \div 2, y \div 2)

RECURSIVE BitOr(_, _)
BitOr(x, y) ==
  IF x = 0 THEN y
  ELSE IF y = 0 THEN x
  ELSE (IF x % 2 = 1 \/ y % 2 = 1 THEN 1 ELSE 0) + 2 * BitOr(x \div 2, y \div 2)

BoolU8(b) == IF b THEN 1 ELSE 0

---------------------------------------------------------------------------
(* cpu/flags_register.rs *)

ZERO_FLAG_BYTE == 7
SUBTRACT_FLAG_BYTE == 6
HALF_CARRY_FLAG_BYTE == 5
CARRY_FLAG_BYTE == 4

\* the literal 0x0b1 that the unpacking masks with (hexadecimal B1, not binary 1)
FLAG_UNPACK_MASK == \hB1

FlagsRegister_new ==
  [zero |-> FALSE, subtract |-> FALSE, half_carry |-> FALSE, carry |-> FALSE]

\* the packing with the four flags in bits 3..0
u8_from_FlagsRegister_low_bits(flag) ==
  BitOr(BitOr(BitOr(Shl8(BoolU8(flag.zero), 3),
                    Shl8(BoolU8(flag.subtract), 2)),
              Shl8(BoolU8(flag.half_carry), 1)),
        BoolU8(flag.carry))

\* impl From<FlagsRegister> for u8
u8_from_FlagsRegister(flag) ==
  BitOr(BitOr(BitOr(Shl8(BoolU8(flag.zero), ZERO_FLAG_BYTE),
                    Shl8(BoolU8(flag.subtract), SUBTRACT_FLAG_BYTE)),
              Shl8(BoolU8(flag.half_carry), HALF_CARRY_FLAG_BYTE)),
        Shl8(BoolU8(flag.carry), CARRY_FLAG_BYTE))

\* the unpacking with the carry taken from bit 3
FlagsRegister_from_u8_carry_bit3(byte) ==
  [zero       |-> BitAnd(Shr(byte, ZERO_FLAG_BYTE), FLAG_UNPACK_MASK) # 0,
   subtract   |-> BitAnd(Shr(byte, SUBTRACT_FLAG_BYTE), FLAG_UNPACK_MASK) # 0,
   half_carry |-> BitAnd(Shr(byte, HALF_CARRY_FLAG_BYTE), FLAG_UNPACK_MASK) # 0,
   carry      |-> BitAnd(Shr(byte, 3), FLAG_UNPACK_MASK) # 0]

\* impl From<u8> for FlagsRegister
FlagsRegister_from_u8(byte) ==
  [zero       |-> BitAnd(Shr(byte, ZERO_FLAG_BYTE), FLAG_UNPACK_MASK) # 0,
   subtract   |-> BitAnd(Shr(byte, SUBTRACT_FLAG_BYTE), FLAG_UNPACK_MASK) # 0,
   half_carry |-> BitAnd(Shr(byte, HALF_CARRY_FLAG_BYTE), FLAG_UNPACK_MASK) # 0,
   carry      |-> BitAnd(Shr(byte, CARRY_FLAG_BYTE), FLAG_UNPACK_MASK) # 0]

---------------------------------------------------------------------------
(* cpu/registers.rs *)

Registers_new ==
  [a |-> 0, b |-> 0, c |-> 0, d |-> 0, e |-> 0,
   f |-> FlagsRegister_new, h |-> 0, l |-> 0]

get_af(r) == BitOr(Shl16(r.a, 8), u8_from_FlagsRegister(r.f))
\* set_af with the flags unpacked from the high byte
set_af_flags_from_high_byte(r, value) ==
  [r EXCEPT !.a = Shr(BitAnd(value, \hFF00), 8),
            !.f = FlagsRegister_from_u8(Shr(BitAnd(value, \hFF00), 8))]

set_af(r, value) ==
  [r EXCEPT !.a = Shr(BitAnd(value, \hFF00), 8),
            !.f = FlagsRegister_from_u8(BitAnd(value, \h00FF))]

get_bc(r) == BitOr(Shl16(r.b, 8), r.c)
set_bc(r, value) ==
  [r EXCEPT !.b = Shr(BitAnd(value, \hFF00), 8), !.c = BitAnd(value, \h00FF)]

get_de(r) == BitOr(Shl16(r.d, 8), r.e)
set_de(r, value) ==
  [r EXCEPT !.d = Shr(BitAnd(value, \hFF00), 8), !.e = BitAnd(value, \h00FF)]

get_hl(r) == BitOr(Shl16(r.h, 8), r.l)
set_hl(r, value) ==
  [r EXCEPT !.h = Shr(BitAnd(value, \hFF00), 8), !.l = BitAnd(value, \h00FF)]

---------------------------------------------------------------------------
(* cpu/instruction.rs: an instruction is the tuple of its variant names,   *)
(* Instruction::LD(LoadType::Word(LoadWordTarget::SP)) is                  *)
(* <<"LD", "Word", "SP">>; an opcode without a match arm decodes to None.  *)

from_byte_prefixed(byte) ==
  CASE byte = \h00 -> <<"RLC", "B">>
    [] byte = \h01 -> <<"RLC", "C">>
    [] byte = \h02 -> <<"RLC", "D">>
    [] byte = \h03 -> <<"RLC", "E">>
    [] byte = \h04 -> <<"RLC", "H">>
    [] byte = \h05 -> <<"RLC", "L">>
    [] byte = \h06 -> <<"RLC", "HLI">>
    [] byte = \h07 -> <<"RLC", "A">>
    [] byte = \h08 -> <<"RRC", "B">>
    [] byte = \h09 -> <<"RRC", "C">>
    [] byte = \h0A -> <<"RRC", "D">>
    [] byte = \h0B -> <<"RRC", "E">>
    [] byte = \h0C -> <<"RRC", "H">>
    [] byte = \h0D -> <<"RRC", "L">>
    [] byte = \h0E -> <<"RRC", "HLI">>
    [] byte = \h0F -> <<"RRC", "A">>
    [] byte = \h10 -> <<"RL", "B">>
    [] byte = \h11 -> <<"RL", "C">>
    [] byte = \h12 -> <<"RL", "D">>
    [] byte = \h13 -> <<"RL", "E">>
    [] byte = \h14 -> <<"RL", "H">>
    [] byte = \h15 -> <<"RL", "L">>
    [] byte = \h16 -> <<"RL", "HLI">>
    [] byte = \h17 -> <<"RL", "A">>
    [] byte = \h18 -> <<"RR", "B">>
    [] byte = \h19 -> <<"RR", "C">>
    [] byte = \h1A -> <<"RR", "D">>
    [] byte = \h1B -> <<"RR", "E">>
    [] byte = \h1C -> <<"RR", "H">>
    [] byte = \h1D -> <<"RR", "L">>
    [] byte = \h1E -> <<"RR", "HLI">>
    [] byte = \h1F -> <<"RR", "A">>
    [] byte = \h20 -> <<"SLA", "B">>
    [] byte = \h21 -> <<"SLA", "C">>
    [] byte = \h22 -> <<"SLA", "D">>
    [] byte = \h23 -> <<"SLA", "E">>
    [] byte = \h24 -> <<"SLA", "H">>
    [] byte = \h25 -> <<"SLA", "L">>
    [] byte = \h26 -> <<"SLA", "HLI">>
    [] byte = \h27 -> <<"SLA", "A">>
    [] byte = \h28 -> <<"SRA", "B">>
    [] byte = \h29 -> <<"SRA", "C">>
    [] byte = \h2A -> <<"SRA", "D">>
    [] byte = \h2B -> <<"SRA", "E">>
    [] byte = \h2C -> <<"SRA", "H">>
    [] byte = \h2D -> <<"SRA", "L">>
    [] byte = \h2E -> <<"SRA", "HLI">>
    [] byte = \h2F -> <<"SRA", "A">>
    [] byte = \h30 -> <<"SWAP", "B">>
    [] byte = \h31 -> <<"SWAP", "C">>
    [] byte = \h32 -> <<"SWAP", "D">>
    [] byte = \h33 -> <<"SWAP", "E">>
    [] byte = \h34 -> <<"SWAP", "H">>
    [] byte = \h35 -> <<"SWAP", "L">>
    [] byte = \h36 -> <<"SWAP", "HLI">>
    [] byte = \h37 -> <<"SWAP", "A">>
    [] byte = \h38 -> <<"SRL", "B">>
    [] byte = \h39 -> <<"SRL", "C">>
    [] byte = \h3A -> <<"SRL", "D">>
    [] byte = \h3B -> <<"SRL", "E">>
    [] byte = \h3C -> <<"SRL", "H">>
    [] byte = \h3D -> <<"SRL", "L">>
    [] byte = \h3E -> <<"SRL", "HLI">>
    [] byte = \h3F -> <<"SRL", "A">>
    [] byte = \h40 -> <<"BIT", "B", "B0">>
    [] byte = \h41 -> <<"BIT", "C", "B0">>
    [] byte = \h42 -> <<"BIT", "D", "B0">>
    [] byte = \h43 -> <<"BIT", "E", "B0">>
    [] byte = \h44 -> <<"BIT", "H", "B0">>
    [] byte = \h45 -> <<"BIT", "L", "B0">>
    [] byte = \h46 -> <<"BIT", "HLI", "B0">>
    [] byte = \h47 -> <<"BIT", "A", "B0">>
    [] byte = \h48 -> <<"BIT", "B", "B1">>
    [] byte = \h49 -> <<"BIT", "C", "B1">>
    [] byte = \h4A -> <<"BIT", "D", "B1">>
    [] byte = \h4B -> <<"BIT", "E", "B1">>
    [] byte = \h4C -> <<"BIT", "H", "B1">>
    [] byte = \h4D -> <<"BIT", "L", "B1">>
    [] byte = \h4E -> <<"BIT", "HLI", "B1">>
    [] byte = \h4F -> <<"BIT", "A", "B1">>
    [] byte = \h50 -> <<"BIT", "B", "B2">>
    [] byte = \h51 -> <<"BIT", "C", "B2">>
    [] byte = \h52 -> <<"BIT", "D", "B2">>
    [] byte = \h53 -> <<"BIT", "E", "B2">>
    [] byte = \h54 -> <<"BIT", "H", "B2">>
    [] byte = \h55 -> <<"BIT", "L", "B2">>
    [] byte = \h56 -> <<"BIT", "HLI", "B2">>
    [] byte = \h57 -> <<"BIT", "A", "B2">>
    [] byte = \h58 -> <<"BIT", "B", "B3">>
    [] byte = \h59 -> <<"BIT", "C", "B3">>
    [] byte = \h5A -> <<"BIT", "D", "B3">>
    [] byte = \h5B -> <<"BIT", "E", "B3">>
    [] byte = \h5C -> <<"BIT", "H", "B3">>
    [] byte = \h5D -> <<"BIT", "L", "B3">>
    [] byte = \h5E -> <<"BIT", "HLI", "B3">>
    [] byte = \h5F -> <<"BIT", "A", "B3">>
    [] byte = \h60 -> <<"BIT", "B", "B4">>
    [] byte = \h61 -> <<"BIT", "C", "B4">>
    [] byte = \h62 -> <<"BIT", "D", "B4">>
    [] byte = \h63 -> <<"BIT", "E", "B4">>
    [] byte = \h64 -> <<"BIT", "H", "B4">>
    [] byte = \h65 -> <<"BIT", "L", "B4">>
    [] byte = \h66 -> <<"BIT", "HLI", "B4">>
    [] byte = \h67 -> <<"BIT", "A", "B4">>
    [] byte = \h68 -> <<"BIT", "B", "B5">>
    [] byte = \h69 -> <<"BIT", "C", "B5">>
    [] byte = \h6A -> <<"BIT", "D", "B5">>
    [] byte = \h6B -> <<"BIT", "E", "B5">>
    [] byte = \h6C -> <<"BIT", "H", "B5">>
    [] byte = \h6D -> <<"BIT", "L", "B5">>
    [] byte = \h6E -> <<"BIT", "HLI", "B5">>
    [] byte = \h6F -> <<"BIT", "A", "B5">>
    [] byte = \h70 -> <<"BIT", "B", "B6">>
    [] byte = \h71 -> <<"BIT", "C", "B6">>
    [] byte = \h72 -> <<"BIT", "D", "B6">>
    [] byte = \h73 -> <<"BIT", "E", "B6">>
    [] byte = \h74 -> <<"BIT", "H", "B6">>
    [] byte = \h75 -> <<"BIT", "L", "B6">>
    [] byte = \h76 -> <<"BIT", "HLI", "B6">>
    [] byte = \h77 -> <<"BIT", "A", "B6">>
    [] byte = \h78 -> <<"BIT", "B", "B7">>
    [] byte = \h79 -> <<"BIT", "C", "B7">>
    [] byte = \h7A -> <<"BIT", "D", "B7">>
    [] byte = \h7B -> <<"BIT", "E", "B7">>
    [] byte = \h7C -> <<"BIT", "H", "B7">>
    [] byte = \h7D -> <<"BIT", "L", "B7">>
    [] byte = \h7E -> <<"BIT", "HLI", "B7">>
    [] byte = \h7F -> <<"BIT", "A", "B7">>
    [] byte = \h80 -> <<"RES", "B", "B0">>
    [] byte = \h81 -> <<"RES", "C", "B0">>
    [] byte = \h82 -> <<"RES", "D", "B0">>
    [] byte = \h83 -> <<"RES", "E", "B0">>
    [] byte = \h84 -> <<"RES", "H", "B0">>
    [] byte = \h85 -> <<"RES", "L", "B0">>
    [] byte = \h86 -> <<"RES", "HLI", "B0">>
    [] byte = \h87 -> <<"RES", "A", "B0">>
    [] byte = \h88 -> <<"RES", "B", "B1">>
    [] byte = \h89 -> <<"RES", "C", "B1">>
    [] byte = \h8A -> <<"RES", "D", "B1">>
    [] byte = \h8B -> <<"RES", "E", "B1">>
    [] byte = \h8C -> <<"RES", "H", "B1">>
    [] byte = \h8D -> <<"RES", "L", "B1">>
    [] byte = \h8E -> <<"RES", "HLI", "B1">>
    [] byte = \h8F -> <<"RES", "A", "B1">>
    [] byte = \h90 -> <<"RES", "B", "B2">>
    [] byte = \h91 -> <<"RES", "C", "B2">>
    [] byte = \h92 -> <<"RES", "D", "B2">>
    [] byte = \h93 -> <<"RES", "E", "B2">>
    [] byte = \h94 -> <<"RES", "H", "B2">>
    [] byte = \h95 -> <<"RES", "L", "B2">>
    [] byte = \h96 -> <<"RES", "HLI", "B2">>
    [] byte = \h97 -> <<"RES", "A", "B2">>
    [] byte = \h98 -> <<"RES", "B", "B3">>
    [] byte = \h99 -> <<"RES", "C", "B3">>
    [] byte = \h9A -> <<"RES", "D", "B3">>
    [] byte = \h9B -> <<"RES", "E", "B3">>
    [] byte = \h9C -> <<"RES", "H", "B3">>
    [] byte = \h9D -> <<"RES", "L", "B3">>
    [] byte = \h9E -> <<"RES", "HLI", "B3">>
    [] byte = \h9F -> <<"RES", "A", "B3">>
    [] byte = \hA0 -> <<"RES", "B", "B4">>
    [] byte = \hA1 -> <<"RES", "C", "B4">>
    [] byte = \hA2 -> <<"RES", "D", "B4">>
    [] byte = \hA3 -> <<"RES", "E", "B4">>
    [] byte = \hA4 -> <<"RES", "H", "B4">>
    [] byte = \hA5 -> <<"RES", "L", "B4">>
    [] byte = \hA6 -> <<"RES", "HLI", "B4">>
    [] byte = \hA7 -> <<"RES", "A", "B4">>
    [] byte = \hA8 -> <<"RES", "B", "B5">>
    [] byte = \hA9 -> <<"RES", "C", "B5">>
    [] byte = \hAA -> <<"RES", "D", "B5">>
    [] byte = \hAB -> <<"RES", "E", "B5">>
    [] byte = \hAC -> <<"RES", "H", "B5">>
    [] byte = \hAD -> <<"RES", "L", "B5">>
    [] byte = \hAE -> <<"RES", "HLI", "B5">>
    [] byte = \hAF -> <<"RES", "A", "B5">>
    [] byte = \hB0 -> <<"RES", "B", "B6">>
    [] byte = \hB1 -> <<"RES", "C", "B6">>
    [] byte = \hB2 -> <<"RES", "D", "B6">>
    [] byte = \hB3 -> <<"RES", "E", "B6">>
    [] byte = \hB4 -> <<"RES", "H", "B6">>
    [] byte = \hB5 -> <<"RES", "L", "B6">>
    [] byte = \hB6 -> <<"RES", "HLI", "B6">>
    [] byte = \hB7 -> <<"RES", "A", "B6">>
    [] byte = \hB8 -> <<"RES", "B", "B7">>
    [] byte = \hB9 -> <<"RES", "C", "B7">>
    [] byte = \hBA -> <<"RES", "D", "B7">>
    [] byte = \hBB -> <<"RES", "E", "B7">>
    [] byte = \hBC -> <<"RES", "H", "B7">>
    [] byte = \hBD -> <<"RES", "L", "B7">>
    [] byte = \hBE -> <<"RES", "HLI", "B7">>
    [] byte = \hBF -> <<"RES", "A", "B7">>
    [] byte = \hC0 -> <<"SET", "B", "B0">>
    [] byte = \hC1 -> <<"SET", "C", "B0">>
    [] byte = \hC2 -> <<"SET", "D", "B0">>
    [] byte = \hC3 -> <<"SET", "E", "B0">>
    [] byte = \hC4 -> <<"SET", "H", "B0">>
    [] byte = \hC5 -> <<"SET", "L", "B0">>
    [] byte = \hC6 -> <<"SET", "HLI", "B0">>
    [] byte = \hC7 -> <<"SET", "A", "B0">>
    [] byte = \hC8 -> <<"SET", "B", "B1">>
    [] byte = \hC9 -> <<"SET", "C", "B1">>
    [] byte = \hCA -> <<"SET", "D", "B1">>
    [] byte = \hCB -> <<"SET", "E", "B1">>
    [] byte = \hCC -> <<"SET", "H", "B1">>
    [] byte = \hCD -> <<"SET", "L", "B1">>
    [] byte = \hCE -> <<"SET", "HLI", "B1">>
    [] byte = \hCF -> <<"SET", "A", "B1">>
    [] byte = \hD0 -> <<"SET", "B", "B2">>
    [] byte = \hD1 -> <<"SET", "C", "B2">>
    [] byte = \hD2 -> <<"SET", "D", "B2">>
    [] byte = \hD3 -> <<"SET", "E", "B2">>
    [] byte = \hD4 -> <<"SET", "H", "B2">>
    [] byte = \hD5 -> <<"SET", "L", "B2">>
    [] byte = \hD6 -> <<"SET", "HLI", "B2">>
    [] byte = \hD7 -> <<"SET", "A", "B2">>
    [] byte = \hD8 -> <<"SET", "B", "B3">>
    [] byte = \hD9 -> <<"SET", "C", "B3">>
    [] byte = \hDA -> <<"SET", "D", "B3">>
    [] byte = \hDB -> <<"SET", "E", "B3">>
    [] byte = \hDC -> <<"SET", "H", "B3">>
    [] byte = \hDD -> <<"SET", "L", "B3">>
    [] byte = \hDE -> <<"SET", "HLI", "B3">>
    [] byte = \hDF -> <<"SET", "A", "B3">>
    [] byte = \hE0 -> <<"SET", "B", "B4">>
    [] byte = \hE1 -> <<"SET", "C", "B4">>
    [] byte = \hE2 -> <<"SET", "D", "B4">>
    [] byte = \hE3 -> <<"SET", "E", "B4">>
    [] byte = \hE4 -> <<"SET", "H", "B4">>
    [] byte = \hE5 -> <<"SET", "L", "B4">>
    [] byte = \hE6 -> <<"SET", "HLI", "B4">>
    [] byte = \hE7 -> <<"SET", "A", "B4">>
    [] byte = \hE8 -> <<"SET", "B", "B5">>
    [] byte = \hE9 -> <<"SET", "C", "B5">>
    [] byte = \hEA -> <<"SET", "D", "B5">>
    [] byte = \hEB -> <<"SET", "E", "B5">>
    [] byte = \hEC -> <<"SET", "H", "B5">>
    [] byte = \hED -> <<"SET", "L", "B5">>
    [] byte = \hEE -> <<"SET", "HLI", "B5">>
    [] byte = \hEF -> <<"SET", "A", "B5">>
    [] byte = \hF0 -> <<"SET", "B", "B6">>
    [] byte = \hF1 -> <<"SET", "C", "B6">>
    [] byte = \hF2 -> <<"SET", "D", "B6">>
    [] byte = \hF3 -> <<"SET", "E", "B6">>
    [] byte = \hF4 -> <<"SET", "H", "B6">>
    [] byte = \hF5 -> <<"SET", "L", "B6">>
    [] byte = \hF6 -> <<"SET", "HLI", "B6">>
    [] byte = \hF7 -> <<"SET", "A", "B6">>
    [] byte = \hF8 -> <<"SET", "B", "B7">>
    [] byte = \hF9 -> <<"SET", "C", "B7">>
    [] byte = \hFA -> <<"SET", "D", "B7">>
    [] byte = \hFB -> <<"SET", "E", "B7">>
    [] byte = \hFC -> <<"SET", "H", "B7">>
    [] byte = \hFD -> <<"SET", "L", "B7">>
    [] byte = \hFE -> <<"SET", "HLI", "B7">>
    [] byte = \hFF -> <<"SET", "A", "B7">>
    [] OTHER -> None

from_byte_not_prefixed(byte) ==
  CASE byte = \h80 -> <<"ADD", "B">>
    [] byte = \h81 -> <<"ADD", "C">>
    [] byte = \h82 -> <<"ADD", "D">>
    [] byte = \h83 -> <<"ADD", "E">>
    [] byte = \h84 -> <<"ADD", "H">>
    [] byte = \h85 -> <<"ADD", "L">>
    [] byte = \h86 -> <<"ADD", "HLI">>
    [] byte = \h87 -> <<"ADD", "A">>
    [] byte = \hC6 -> <<"ADD", "D8">>
    [] byte = \hE8 -> <<"ADDSP">>
    [] byte = \h8F -> <<"ADC", "A">>
    [] byte = \h88 -> <<"ADC", "B">>
    [] byte = \h89 -> <<"ADC", "C">>
    [] byte = \h8A -> <<"ADC", "D">>
    [] byte = \h8B -> <<"ADC", "E">>
    [] byte = \h8C -> <<"ADC", "H">>
    [] byte = \h8D -> <<"ADC", "L">>
    [] byte = \h8E -> <<"ADC", "HLI">>
    [] byte = \hCE -> <<"ADC", "D8">>
    [] byte = \h97 -> <<"SUB", "A">>
    [] byte = \h90 -> <<"SUB", "B">>
    [] byte = \h91 -> <<"SUB", "C">>
    [] byte = \h92 -> <<"SUB", "D">>
    [] byte = \h93 -> <<"SUB", "E">>
    [] byte = \h94 -> <<"SUB", "H">>
    [] byte = \h95 -> <<"SUB", "L">>
    [] byte = \h96 -> <<"SUB", "HLI">>
    [] byte = \hD6 -> <<"SUB", "D8">>
    [] byte = \h9F -> <<"SBC", "A">>
    [] byte = \h98 -> <<"SBC", "B">>
    [] byte = \h99 -> <<"SBC", "C">>
    [] byte = \h9A -> <<"SBC", "D">>
    [] byte = \h9B -> <<"SBC", "E">>
    [] byte = \h9C -> <<"SBC", "H">>
    [] byte = \h9D -> <<"SBC", "L">>
    [] byte = \h9E -> <<"SBC", "HLI">>
    [] byte = \hDE -> <<"SBC", "D8">>
    [] byte = \hA7 -> <<"AND", "A">>
    [] byte = \hA0 -> <<"AND", "B">>
    [] byte = \hA1 -> <<"AND", "C">>
    [] byte = \hA2 -> <<"AND", "D">>
    [] byte = \hA3 -> <<"AND", "E">>
    [] byte = \hA4 -> <<"AND", "H">>
    [] byte = \hA5 -> <<"AND", "L">>
    [] byte = \hA6 -> <<"AND", "HLI">>
    [] byte = \hE6 -> <<"AND", "D8">>
    [] byte = \hB7 -> <<"OR", "A">>
    [] byte = \hB0 -> <<"OR", "B">>
    [] byte = \hB1 -> <<"OR", "C">>
    [] byte = \hB2 -> <<"OR", "D">>
    [] byte = \hB3 -> <<"OR", "E">>
    [] byte = \hB4 -> <<"OR", "H">>
    [] byte = \hB5 -> <<"OR", "L">>
    [] byte = \hB6 -> <<"OR", "HLI">>
    [] byte = \hF6 -> <<"OR", "D8">>
    [] byte = \hAF -> <<"XOR", "A">>
    [] byte = \hA8 -> <<"XOR", "B">>
    [] byte = \hA9 -> <<"XOR", "C">>
    [] byte = \hAA -> <<"XOR", "D">>
    [] byte = \hAB -> <<"XOR", "E">>
    [] byte = \hAC -> <<"XOR", "H">>
    [] byte = \hAD -> <<"XOR", "L">>
    [] byte = \hAE -> <<"XOR", "HLI">>
    [] byte = \hEE -> <<"XOR", "D8">>
    [] byte = \hBF -> <<"CP", "A">>
    [] byte = \hB8 -> <<"CP", "B">>
    [] byte = \hB9 -> <<"CP", "C">>
    [] byte = \hBA -> <<"CP", "D">>
    [] byte = \hBB -> <<"CP", "E">>
    [] byte = \hBC -> <<"CP", "H">>
    [] byte = \hBD -> <<"CP", "L">>
    [] byte = \hBE -> <<"CP", "HLI">>
    [] byte = \hFE -> <<"CP", "D8">>
    [] byte = \h3C -> <<"INC", "A">>
    [] byte = \h04 -> <<"INC", "B">>
    [] byte = \h0C -> <<"INC", "C">>
    [] byte = \h14 -> <<"INC", "D">>
    [] byte = \h1C -> <<"INC", "E">>
    [] byte = \h24 -> <<"INC", "H">>
    [] byte = \h2C -> <<"INC", "L">>
    [] byte = \h34 -> <<"INC", "HLI">>
    [] byte = \h3D -> <<"DEC", "A">>
    [] byte = \h05 -> <<"DEC", "B">>
    [] byte = \h0D -> <<"DEC", "C">>
    [] byte = \h15 -> <<"DEC", "D">>
    [] byte = \h1D -> <<"DEC", "E">>
    [] byte = \h25 -> <<"DEC", "H">>
    [] byte = \h2D -> <<"DEC", "L">>
    [] byte = \h35 -> <<"DEC", "HLI">>
    [] byte = \h3B -> <<"DEC", "SP">>
    [] byte = \hC5 -> <<"PUSH", "BC">>
    [] byte = \hD5 -> <<"PUSH", "DE">>
    [] byte = \hE5 -> <<"PUSH", "HL">>
    [] byte = \hF5 -> <<"PUSH", "AF">>
    [] byte = \hC1 -> <<"POP", "BC">>
    [] byte = \hD1 -> <<"POP", "DE">>
    [] byte = \hE1 -> <<"POP", "HL">>
    [] byte = \hF1 -> <<"POP", "AF">>
    [] byte = \h06 -> <<"LD", "Byte", "B", "D8">>
    [] byte = \h0E -> <<"LD", "Byte", "C", "D8">>
    [] byte = \h16 -> <<"LD", "Byte", "D", "D8">>
    [] byte = \h1E -> <<"LD", "Byte", "E", "D8">>
    [] byte = \h26 -> <<"LD", "Byte", "H", "D8">>
    [] byte = \h2E -> <<"LD", "Byte", "L", "D8">>
    [] byte = \h36 -> <<"LD", "Byte", "HLI", "D8">>
    [] byte = \h3E -> <<"LD", "Byte", "A", "D8">>
    [] byte = \h40 -> <<"LD", "Byte", "B", "B">>
    [] byte = \h41 -> <<"LD", "Byte", "B", "C">>
    [] byte = \h42 -> <<"LD", "Byte", "B", "D">>
    [] byte = \h43 -> <<"LD", "Byte", "B", "E">>
    [] byte = \h44 -> <<"LD", "Byte", "B", "H">>
    [] byte = \h45 -> <<"LD", "Byte", "B", "L">>
    [] byte = \h46 -> <<"LD", "Byte", "B", "HLI">>
    [] byte = \h47 -> <<"LD", "Byte", "B", "A">>
    [] byte = \h48 -> <<"LD", "Byte", "C", "B">>
    [] byte = \h49 -> <<"LD", "Byte", "C", "C">>
    [] byte = \h4A -> <<"LD", "Byte", "C", "D">>
    [] byte = \h4B -> <<"LD", "Byte", "C", "E">>
    [] byte = \h4C -> <<"LD", "Byte", "C", "H">>
    [] byte = \h4D -> <<"LD", "Byte", "C", "L">>
    [] byte = \h4E -> <<"LD", "Byte", "C", "HLI">>
    [] byte = \h4F -> <<"LD", "Byte", "C", "A">>
    [] byte = \h50 -> <<"LD", "Byte", "D", "B">>
    [] byte = \h51 -> <<"LD", "Byte", "D", "C">>
    [] byte = \h52 -> <<"LD", "Byte", "D", "D">>
    [] byte = \h53 -> <<"LD", "Byte", "D", "E">>
    [] byte = \h54 -> <<"LD", "Byte", "D", "H">>
    [] byte = \h55 -> <<"LD", "Byte", "D", "L">>
    [] byte = \h56 -> <<"LD", "Byte", "D", "HLI">>
    [] byte = \h57 -> <<"LD", "Byte", "D", "A">>
    [] byte = \h58 -> <<"LD", "Byte", "E", "B">>
    [] byte = \h59 -> <<"LD", "Byte", "E", "C">>
    [] byte = \h5A -> <<"LD", "Byte", "E", "D">>
    [] byte = \h5B -> <<"LD", "Byte", "E", "E">>
    [] byte = \h5C -> <<"LD", "Byte", "E", "H">>
    [] byte = \h5D -> <<"LD", "Byte", "E", "L">>
    [] byte = \h5E -> <<"LD", "Byte", "E", "HLI">>
    [] byte = \h5F -> <<"LD", "Byte", "E", "A">>
    [] byte = \h60 -> <<"LD", "Byte", "H", "B">>
    [] byte = \h61 -> <<"LD", "Byte", "H", "C">>
    [] byte = \h62 -> <<"LD", "Byte", "H", "D">>
    [] byte = \h63 -> <<"LD", "Byte", "H", "E">>
    [] byte = \h64 -> <<"LD", "Byte", "H", "H">>
    [] byte = \h65 -> <<"LD", "Byte", "H", "L">>
    [] byte = \h66 -> <<"LD", "Byte", "H", "HLI">>
    [] byte = \h67 -> <<"LD", "Byte", "H", "A">>
    [] byte = \h68 -> <<"LD", "Byte", "L", "B">>
    [] byte = \h69 -> <<"LD", "Byte", "L", "C">>
    [] byte = \h6A -> <<"LD", "Byte", "L", "D">>
    [] byte = \h6B -> <<"LD", "Byte", "L", "E">>
    [] byte = \h6C -> <<"LD", "Byte", "L", "H">>
    [] byte = \h6D -> <<"LD", "Byte", "L", "L">>
    [] byte = \h6E -> <<"LD", "Byte", "L", "HLI">>
    [] byte = \h6F -> <<"LD", "Byte", "L", "A">>
    [] byte = \h70 -> <<"LD", "Byte", "HLI", "B">>
    [] byte = \h71 -> <<"LD", "Byte", "HLI", "C">>
    [] byte = \h72 -> <<"LD", "Byte", "HLI", "D">>
    [] byte = \h73 -> <<"LD", "Byte", "HLI", "E">>
    [] byte = \h74 -> <<"LD", "Byte", "HLI", "H">>
    [] byte = \h75 -> <<"LD", "Byte", "HLI", "L">>
    [] byte = \h76 -> <<"LD", "Byte", "HLI", "HLI">>
    [] byte = \h77 -> <<"LD", "Byte", "HLI", "A">>
    [] byte = \h78 -> <<"LD", "Byte", "A", "B">>
    [] byte = \h79 -> <<"LD", "Byte", "A", "C">>
    [] byte = \h7A -> <<"LD", "Byte", "A", "D">>
    [] byte = \h7B -> <<"LD", "Byte", "A", "E">>
    [] byte = \h7C -> <<"LD", "Byte", "A", "H">>
    [] byte = \h7D -> <<"LD", "Byte", "A", "L">>
    [] byte = \h7E -> <<"LD", "Byte", "A", "HLI">>
    [] byte = \h7F -> <<"LD", "Byte", "A", "A">>
    [] byte = \h09 -> <<"ADDHL", "BC">>
    [] byte = \h19 -> <<"ADDHL", "DE">>
    [] byte = \h29 -> <<"ADDHL", "HL">>
    [] byte = \h39 -> <<"ADDHL", "SP">>
    [] byte = \h03 -> <<"INC", "BC">>
    [] byte = \h13 -> <<"INC", "DE">>
    [] byte = \h23 -> <<"INC", "HL">>
    [] byte = \h33 -> <<"INC", "SP">>
    [] byte = \h0B -> <<"DEC", "BC">>
    [] byte = \h1B -> <<"DEC", "DE">>
    [] byte = \h2B -> <<"DEC", "HL">>
    [] byte = \hC4 -> <<"CALL", "NotZero">>
    [] byte = \hD4 -> <<"CALL", "NotCarry">>
    [] byte = \hCC -> <<"CALL", "Zero">>
    [] byte = \hDC -> <<"CALL", "Carry">>
    [] byte = \hCD -> <<"CALL", "Always">>
    [] byte = \hC0 -> <<"RET", "NotZero">>
    [] byte = \hD0 -> <<"RET", "NotCarry">>
    [] byte = \hC8 -> <<"RET", "Zero">>
    [] byte = \hD8 -> <<"RET", "Carry">>
    [] byte = \hC9 -> <<"RET", "Always">>
    [] byte = \h2F -> <<"CPL">>
    [] byte = \h3F -> <<"CCF">>
    [] byte = \h37 -> <<"SCF">>
    [] byte = \h27 -> <<"DAA">>
    [] byte = \h00 -> <<"NOP">>
    [] byte = \hD9 -> <<"RETI">>
    [] byte = \hF3 -> <<"DI">>
    [] byte = \hFB -> <<"EI">>
    [] byte = \h01 -> <<"LD", "Word", "BC">>
    [] byte = \h11 -> <<"LD", "Word", "DE">>
    [] byte = \h21 -> <<"LD", "Word", "HL">>
    [] byte = \h31 -> <<"LD", "Word", "SP">>
    [] byte = \h02 -> <<"LD", "IndirectFromA", "BC">>
    [] byte = \h12 -> <<"LD", "IndirectFromA", "DE">>
    [] byte = \h22 -> <<"LD", "IndirectFromA", "HLPlus">>
    [] byte = \h32 -> <<"LD", "IndirectFromA", "HLMinus">>
    [] byte = \hEA -> <<"LD", "IndirectFromA", "Word">>
    [] byte = \hE2 -> <<"LD", "IndirectFromA", "LastByte">>
    [] byte = \h07 -> <<"RLCA">>
    [] byte = \h17 -> <<"RLA">>
    [] byte = \h0F -> <<"RRCA">>
    [] byte = \h1F -> <<"RRA">>
    [] byte = \h08 -> <<"LD", "IndirectFromSP">>
    [] byte = \hE0 -> <<"LD", "ByteAddressFromA">>
    [] byte = \hF0 -> <<"LD", "AFromByteAddress">>
    [] byte = \hF8 -> <<"LD", "HLFromSPN">>
    [] byte = \hF9 -> <<"LD", "SPFromHL">>
    [] byte = \h0A -> <<"LD", "AFromIndirect", "BC">>
    [] byte = \h1A -> <<"LD", "AFromIndirect", "DE">>
    [] byte = \h2A -> <<"LD", "AFromIndirect", "HLPlus">>
    [] byte = \h3A -> <<"LD", "AFromIndirect", "HLMinus">>
    [] byte = \hFA -> <<"LD", "AFromIndirect", "Word">>
    [] byte = \hF2 -> <<"LD", "AFromIndirect", "LastByte">>
    [] byte = \hC7 -> <<"RST", "D00H">>
    [] byte = \hCF -> <<"RST", "D08H">>
    [] byte = \hD7 -> <<"RST", "D10H">>
    [] byte = \hDF -> <<"RST", "D18H">>
    [] byte = \hE7 -> <<"RST", "D20H">>
    [] byte = \hEF -> <<"RST", "D28H">>
    [] byte = \hF7 -> <<"RST", "D30H">>
    [] byte = \hFF -> <<"RST", "D38H">>
    [] byte = \hC3 -> <<"JP", "Always">>
    [] byte = \hC2 -> <<"JP", "NotZero">>
    [] byte = \hCA -> <<"JP", "Zero">>
    [] byte = \hD2 -> <<"JP", "NotCarry">>
    [] byte = \hDA -> <<"JP", "Carry">>
    [] byte = \hE9 -> <<"JPHL">>
    [] byte = \h18 -> <<"JR", "Always">>
    [] byte = \h20 -> <<"JR", "NotZero">>
    [] byte = \h28 -> <<"JR", "Zero">>
    [] byte = \h30 -> <<"JR", "NotCarry">>
    [] byte = \h38 -> <<"JR", "Carry">>
    [] OTHER -> None

\* from_byte looking every byte up in the unprefixed table
from_byte_ignoring_prefix(byte, prefixed) == from_byte_not_prefixed(byte)

\* Instruction::from_byte
from_byte(byte, prefixed) ==
  IF prefixed THEN from_byte_prefixed(byte) ELSE from_byte_not_prefixed(byte)

---------------------------------------------------------------------------
(* interrupts.rs *)

\* enum InterruptLocation: the vector each source is dispatched to
InterruptLocation ==
  [VBlank |-> \h40, LCD |-> \h48, Timer |-> \h50, Serial |-> \h58, Joypad |-> \h60]

Interrupts_new ==
  [vertical_blank_interrupt  |-> FALSE,
   lcd_c_interrupt           |-> FALSE,
   timer_interrupt           |-> FALSE,
   serial_transfer_interrupt |-> FALSE,
   control_interrupt         |-> FALSE]

Interrupts_from_byte(byte) ==
  [vertical_blank_interrupt  |-> BitAnd(byte, 1) = 1,
   lcd_c_interrupt           |-> BitAnd(Shr(byte, 1), 1) = 1,
   timer_interrupt           |-> BitAnd(Shr(byte, 2), 1) = 1,
   serial_transfer_interrupt |-> BitAnd(Shr(byte, 3), 1) = 1,
   control_interrupt         |-> BitAnd(Shr(byte, 4), 1) = 1]

Interrupts_to_byte(i) ==
  BitOr(BitOr(BitOr(BitOr(BoolU8(i.vertical_blank_interrupt),
                          Shl8(BoolU8(i.lcd_c_interrupt), 1)),
                    Shl8(BoolU8(i.timer_interrupt), 2)),
              Shl8(BoolU8(i.serial_transfer_interrupt), 3)),
        Shl8(BoolU8(i.control_interrupt), 4))

---------------------------------------------------------------------------
(* memory_bus.rs: the address map *)

BOOT_ROM_START == \h0000
BOOT_ROM_END == \h00FF
ROM_BANK_START == \h0000
ROM_BANK_END == \h3FFF
ROM_SWITCHABLE_BANK_START == \h4000
ROM_SWITCHABLE_BANK_END == \h7FFF
VIDEO_RAM_START == \h8000
VIDEO_RAM_END == \h9FFF
EXTERNAL_RAM_START == \hA000
EXTERNAL_RAM_END == \hBFFF
WORKING_RAM_START == \hC000
WORKING_RAM_END == \hDFFF
ECHO_RAM_START == \hE000
ECHO_RAM_END == \hFDFF
OAM_START == \hFE00
OAM_END == \hFE9F
IO_REGISTERS_START == \hFF00
IO_REGISTERS_END == \hFF7F
HRAM_START == \hFF80
HRAM_END == \hFFFE
UNUSED_START == \hFEA0
UNUSED_END == \hFEFF
ENABLE_INTERRUPTS == \hFFFF

(* A byte array is kept as the finite map of the cells that differ from    *)
(* the array's fill value; Load and Store are indexing and assignment.     *)
Load(arr, fill, i) == IF i \in DOMAIN arr THEN arr[i] ELSE fill

Store(arr, fill, i, v) ==
  IF v = fill
    THEN [j \in DOMAIN arr \ {i} |-> arr[j]]
    ELSE [j \in DOMAIN arr \cup {i} |-> IF j = i THEN v ELSE arr[j]]

\* fill values of MemoryBus::new and GPU::new; the cartridge image is
\* zero-filled (vec![0; 0x10000]) outside the bytes a program occupies
ROM_FILL == \h00
RAM_FILL == \hFF

---------------------------------------------------------------------------
(* memory_bus.rs: Timer and Divider *)

\* TimerFrequency::in_ticks
in_ticks(frequency) ==
  CASE frequency = "F4096" -> 1024
    [] frequency = "F16384" -> 256
    [] frequency = "F65536" -> 64
    [] frequency = "F262144" -> 16

Timer_new ==
  [frequency |-> "F4096", cycles |-> 0, value |-> 0, modulo |-> 0, active |-> FALSE]

\* Timer::step: the timer after the step, and whether the counter overflowed
Timer_step(t, cycles) ==
  IF ~t.active THEN [timer |-> t, did_overflow |-> FALSE]
  ELSE
    LET total == t.cycles + cycles
        cycles_per_tick == in_ticks(t.frequency)
        ticked == total > cycles_per_tick
        did_overflow == ticked /\ t.value = 255
    IN [timer |-> [t EXCEPT
                     !.cycles = IF ticked THEN total % cycles_per_tick ELSE total,
                     !.value = IF did_overflow THEN t.modulo
                               ELSE IF ticked THEN wrapping_add8(t.value, 1)
                               ELSE t.value],
        did_overflow |-> did_overflow]

\* the divider counting steps instead of cycles
Divider_step_by_one(d, cycles) == [d EXCEPT !.value = wrapping_add8(d.value, 1)]

\* Divider::step (cycles as u8 truncates)
Divider_step(d, cycles) == [d EXCEPT !.value = wrapping_add8(d.value, cycles % 256)]

---------------------------------------------------------------------------
(* gpu.rs *)

ONE_FRAME_IN_CYCLES == 70224

OAM_NUMBER_OF_OBJECTS == 40

\* enum Color
Color == [White |-> 255, LightGray |-> 192, DarkGray |-> 96, Black |-> 0]

\* impl From<u8> for Color (values above 3 never occur: callers mask to two bits)
Color_from_u8(value) ==
  CASE value = 0 -> Color.White
    [] value = 1 -> Color.LightGray
    [] value = 2 -> Color.DarkGray
    [] value = 3 -> Color.Black

Palette_new == <<Color.White, Color.LightGray, Color.DarkGray, Color.Black>>

\* the four entries taken from the most significant pair down
Palette_from_u8_msb_first(value) ==
  <<Color_from_u8(Shr(value, 6)),
    Color_from_u8(BitAnd(Shr(value, 4), 3)),
    Color_from_u8(BitAnd(Shr(value, 2), 3)),
    Color_from_u8(BitAnd(value, 3))>>

\* impl From<u8> for Palette
Palette_from_u8(value) ==
  <<Color_from_u8(BitAnd(value, 3)),
    Color_from_u8(BitAnd(Shr(value, 2), 3)),
    Color_from_u8(BitAnd(Shr(value, 4), 3)),
    Color_from_u8(Shr(value, 6))>>

\* impl Default for ObjectData
ObjectData_default ==
  [x |-> -16, y |-> -8, tile |-> 0, priority |-> FALSE,
   flip_x |-> FALSE, flip_y |-> FALSE, palette |-> "Zero"]

\* a row of empty_tile()
TileRow_default == <<"Zero", "Zero", "Zero", "Zero", "Zero", "Zero", "Zero", "Zero">>

(* GPU::new.  video_ram, oam, tile_set (keyed by <<tile, row>>) and        *)
(* obj_data are finite maps over their fill values.  The four STAT         *)
(* interrupt enables are the fields MemoryBus::write_to_io assigns.        *)
GPU_new ==
  [video_ram |-> <<>>,
   oam |-> <<>>,
   cycles |-> 0,
   lcd_display_enabled |-> FALSE,
   background_window_tile_data |-> "Ox8000",
   background_tile_map |-> "Ox9800",
   background_display_enabled |-> FALSE,
   background_window_palette |-> Palette_new,
   obj_size |-> "Size8x8",
   obj_display_enable |-> FALSE,
   obj_0_palette |-> Palette_new,
   obj_1_palette |-> Palette_new,
   obj_data |-> <<>>,
   tile_set |-> <<>>,
   lcd_mode |-> "HBlank",
   lcd_y_coordinate |-> 0,
   lcd_y_compare |-> 0,
   window_tile_map |-> "Ox9800",
   window_display_enabled |-> FALSE,
   window_x |-> 0,
   window_y |-> 0,
   scroll_x |-> 0,
   scroll_y |-> 0,
   lyc_interrupt_enabled |-> FALSE,
   oam_interrupt_enabled |-> FALSE,
   vblank_interrupt_enabled |-> FALSE,
   hblank_interrupt_enabled |-> FALSE]

\* GPU::step starting each mode with the cycle count at zero
GPU_step_dropping_remainder(g, cycles) ==
  IF ~g.lcd_display_enabled THEN g
  ELSE
    LET c == g.cycles + cycles IN
    CASE g.lcd_mode = "OAMAccess" ->
           IF c >= 80
             THEN [g EXCEPT !.lcd_mode = "VRAMAccess", !.cycles = 0]
             ELSE [g EXCEPT !.cycles = c]
      [] g.lcd_mode = "VRAMAccess" ->
           IF c >= 172
             THEN [g EXCEPT !.cycles = 0, !.lcd_mode = "HBlank"]
             ELSE [g EXCEPT !.cycles = c]
      [] g.lcd_mode = "HBlank" ->
           IF c >= 200
             THEN [g EXCEPT !.cycles = 0,
                            !.lcd_y_coordinate = g.lcd_y_coordinate + 1,
                            !.lcd_mode = IF g.lcd_y_coordinate + 1 >= 144
                                           THEN "VBlank" ELSE "OAMAccess"]
             ELSE [g EXCEPT !.cycles = c]
      [] g.lcd_mode = "VBlank" ->
           IF c >= 456
             THEN IF g.lcd_y_coordinate + 1 = 154
                    THEN [g EXCEPT !.cycles = 0,
                                   !.lcd_mode = "OAMAccess",
                                   !.lcd_y_coordinate = 0]
                    ELSE [g EXCEPT !.cycles = 0,
                                   !.lcd_y_coordinate = g.lcd_y_coordinate + 1]
             ELSE [g EXCEPT !.cycles = c]

\* GPU::step leaving V-blank one line late
GPU_step_late_wrap(g, cycles) ==
  IF ~g.lcd_display_enabled THEN g
  ELSE
    LET c == g.cycles + cycles IN
    CASE g.lcd_mode = "OAMAccess" ->
           IF c >= 80
             THEN [g EXCEPT !.lcd_mode = "VRAMAccess", !.cycles = c % 80]
             ELSE [g EXCEPT !.cycles = c]
      [] g.lcd_mode = "VRAMAccess" ->
           IF c >= 172
             THEN [g EXCEPT !.cycles = c % 172, !.lcd_mode = "HBlank"]
             ELSE [g EXCEPT !.cycles = c]
      [] g.lcd_mode = "HBlank" ->
           IF c >= 200
             THEN [g EXCEPT !.cycles = c % 200,
                            !.lcd_y_coordinate = g.lcd_y_coordinate + 1,
                            !.lcd_mode = IF g.lcd_y_coordinate + 1 >= 144
                                           THEN "VBlank" ELSE "OAMAccess"]
             ELSE [g EXCEPT !.cycles = c]
      [] g.lcd_mode = "VBlank" ->
           IF c >= 456
             THEN IF g.lcd_y_coordinate + 1 > 154
                    THEN [g EXCEPT !.cycles = c % 456,
                                   !.lcd_mode = "OAMAccess",
                                   !.lcd_y_coordinate = 0]
                    ELSE [g EXCEPT !.cycles = c % 456,
                                   !.lcd_y_coordinate = g.lcd_y_coordinate + 1]
             ELSE [g EXCEPT !.cycles = c]

\* GPU::step entering V-blank only past line 144
GPU_step_late_vblank(g, cycles) ==
  IF ~g.lcd_display_enabled THEN g
  ELSE
    LET c == g.cycles + cycles IN
    CASE g.lcd_mode = "OAMAccess" ->
           IF c >= 80
             THEN [g EXCEPT !.lcd_mode = "VRAMAccess", !.cycles = c % 80]
             ELSE [g EXCEPT !.cycles = c]
      [] g.lcd_mode = "VRAMAccess" ->
           IF c >= 172
             THEN [g EXCEPT !.cycles = c % 172, !.lcd_mode = "HBlank"]
             ELSE [g EXCEPT !.cycles = c]
      [] g.lcd_mode = "HBlank" ->
           IF c >= 200
             THEN [g EXCEPT !.cycles = c % 200,
                            !.lcd_y_coordinate = g.lcd_y_coordinate + 1,
                            !.lcd_mode = IF g.lcd_y_coordinate + 1 > 144
                                           THEN "VBlank" ELSE "OAMAccess"]
             ELSE [g EXCEPT !.cycles = c]
      [] g.lcd_mode = "VBlank" ->
           IF c >= 456
             THEN IF g.lcd_y_coordinate + 1 = 154
                    THEN [g EXCEPT !.cycles = c % 456,
                                   !.lcd_mode = "OAMAccess",
                                   !.lcd_y_coordinate = 0]
                    ELSE [g EXCEPT !.cycles = c % 456,
                                   !.lcd_y_coordinate = g.lcd_y_coordinate + 1]
             ELSE [g EXCEPT !.cycles = c]

\* GPU::step: the mode state machine (the scanline renderer it calls on
\* entering HBlank writes only the framebuffer, which is not part of this state)
GPU_step(g, cycles) ==
  IF ~g.lcd_display_enabled THEN g
  ELSE
    LET c == g.cycles + cycles IN
    CASE g.lcd_mode = "OAMAccess" ->
           IF c >= 80
             THEN [g EXCEPT !.lcd_mode = "VRAMAccess", !.cycles = c % 80]
             ELSE [g EXCEPT !.cycles = c]
      [] g.lcd_mode = "VRAMAccess" ->
           IF c >= 172
             THEN [g EXCEPT !.cycles = c % 172, !.lcd_mode = "HBlank"]
             ELSE [g EXCEPT !.cycles = c]
      [] g.lcd_mode = "HBlank" ->
           IF c >= 200
             THEN [g EXCEPT !.cycles = c % 200,
                            !.lcd_y_coordinate = g.lcd_y_coordinate + 1,
                            !.lcd_mode = IF g.lcd_y_coordinate + 1 >= 144
                                           THEN "VBlank" ELSE "OAMAccess"]
             ELSE [g EXCEPT !.cycles = c]
      [] g.lcd_mode = "VBlank" ->
           IF c >= 456
             THEN IF g.lcd_y_coordinate + 1 = 154
                    THEN [g EXCEPT !.cycles = c % 456,
                                   !.lcd_mode = "OAMAccess",
                                   !.lcd_y_coordinate = 0]
                    ELSE [g EXCEPT !.cycles = c % 456,
                                   !.lcd_y_coordinate = g.lcd_y_coordinate + 1]
             ELSE [g EXCEPT !.cycles = c]

\* whether GPU::step calls render_scanline: on leaving VRAMAccess for HBlank
renders_scanline(g, cycles) ==
  g.lcd_display_enabled /\ g.lcd_mode = "VRAMAccess" /\ g.cycles + cycles >= 172

(* The pair (vblank, lcd) that MemoryBus::step takes from the pipeline's   *)
(* step.  gpu.rs produces no value, so the pair follows the design         *)
(* document: V-blank is asserted by the step that enters V-blank, LCD-stat *)
(* by a step that enters a mode whose STAT enable is set or that moves LY  *)
(* onto LYC while the LYC enable is set.                                   *)
GPU_step_interrupts(g, g2) ==
  LET entered(mode) == g.lcd_mode # mode /\ g2.lcd_mode = mode IN
  [vblank |-> entered("VBlank"),
   lcd |-> \/ g2.hblank_interrupt_enabled /\ entered("HBlank")
           \/ g2.vblank_interrupt_enabled /\ entered("VBlank")
           \/ g2.oam_interrupt_enabled /\ entered("OAMAccess")
           \/ /\ g2.lyc_interrupt_enabled
              /\ g2.lcd_y_coordinate # g.lcd_y_coordinate
              /\ g2.lcd_y_coordinate = g2.lcd_y_compare]

\* write_vram decoding the row from the bytes held before the store
GPU_write_vram_stale_row(g, address, value) ==
  LET vram == Store(g.video_ram, RAM_FILL, address, value) IN
  IF address >= \h1800 THEN [g EXCEPT !.video_ram = vram]
  ELSE
    LET index == address
        normalized_index == BitAnd(index, \hFFFE)
        first_byte == Load(g.video_ram, RAM_FILL, normalized_index)
        second_byte == Load(g.video_ram, RAM_FILL, normalized_index + 1)
        tile_index == index \div 16
        row_index == (index % 16) \div 2
        pixel(pixel_index) ==
          LET mask == 2 ^ (7 - pixel_index)
              lsb == BitAnd(first_byte, mask)
              msb == BitAnd(second_byte, mask)
          IN CASE lsb # 0 /\ msb # 0 -> "Three"
               [] lsb = 0 /\ msb # 0 -> "Two"
               [] lsb # 0 /\ msb = 0 -> "One"
               [] lsb = 0 /\ msb = 0 -> "Zero"
        row == [p \in 1..8 |-> pixel(p - 1)]
    IN [g EXCEPT !.video_ram = vram,
                 !.tile_set = Store(g.tile_set, TileRow_default,
                                    <<tile_index, row_index>>, row)]

\* GPU::write_vram
GPU_write_vram(g, address, value) ==
  LET vram == Store(g.video_ram, RAM_FILL, address, value) IN
  IF address >= \h1800 THEN [g EXCEPT !.video_ram = vram]
  ELSE
    LET index == address
        normalized_index == BitAnd(index, \hFFFE)
        first_byte == Load(vram, RAM_FILL, normalized_index)
        second_byte == Load(vram, RAM_FILL, normalized_index + 1)
        tile_index == index \div 16
        row_index == (index % 16) \div 2
        pixel(pixel_index) ==
          LET mask == 2 ^ (7 - pixel_index)
              lsb == BitAnd(first_byte, mask)
              msb == BitAnd(second_byte, mask)
          IN CASE lsb # 0 /\ msb # 0 -> "Three"
               [] lsb = 0 /\ msb # 0 -> "Two"
               [] lsb # 0 /\ msb = 0 -> "One"
               [] lsb = 0 /\ msb = 0 -> "Zero"
        row == [p \in 1..8 |-> pixel(p - 1)]
    IN [g EXCEPT !.video_ram = vram,
                 !.tile_set = Store(g.tile_set, TileRow_default,
                                    <<tile_index, row_index>>, row)]

\* write_oam taking the attribute flags from bits 4..7 in the opposite order
GPU_write_oam_flags_reversed(g, index, value) ==
  LET oam == Store(g.oam, RAM_FILL, index, value)
      object_index == index \div 4
      byte == index % 4
      data == Load(g.obj_data, ObjectData_default, object_index)
      data2 ==
        CASE byte = 0 -> [data EXCEPT !.y = value - \h10]
          [] byte = 1 -> [data EXCEPT !.x = value - \h8]
          [] byte = 2 -> [data EXCEPT !.tile = value]
          [] OTHER -> [data EXCEPT
                         !.palette = IF BitAnd(value, \h80) # 0 THEN "One" ELSE "Zero",
                         !.flip_x = BitAnd(value, \h40) # 0,
                         !.flip_y = BitAnd(value, \h20) # 0,
                         !.priority = BitAnd(value, \h10) # 0]
  IN IF object_index > OAM_NUMBER_OF_OBJECTS
       THEN [g EXCEPT !.oam = oam]
       ELSE [g EXCEPT !.oam = oam,
                      !.obj_data = Store(@, ObjectData_default, object_index, data2)]

\* GPU::write_oam
GPU_write_oam(g, index, value) ==
  LET oam == Store(g.oam, RAM_FILL, index, value)
      object_index == index \div 4
      byte == index % 4
      data == Load(g.obj_data, ObjectData_default, object_index)
      data2 ==
        CASE byte = 0 -> [data EXCEPT !.y = value - \h10]
          [] byte = 1 -> [data EXCEPT !.x = value - \h8]
          [] byte = 2 -> [data EXCEPT !.tile = value]
          [] OTHER -> [data EXCEPT
                         !.palette = IF BitAnd(value, \h10) # 0 THEN "One" ELSE "Zero",
                         !.flip_x = BitAnd(value, \h20) # 0,
                         !.flip_y = BitAnd(value, \h40) # 0,
                         !.priority = BitAnd(value, \h80) # 0]
  IN IF object_index > OAM_NUMBER_OF_OBJECTS
       THEN [g EXCEPT !.oam = oam]
       ELSE [g EXCEPT !.oam = oam,
                      !.obj_data = Store(g.obj_data, ObjectData_default,
                                         object_index, data2)]

---------------------------------------------------------------------------
(* gpu.rs: GPU::render_scanline.  The renderer writes only screen_buffer,  *)
(* which nothing in the emulator core reads back, so it is modelled by     *)
(* what one call writes: for every pixel x of the line it touches, the     *)
(* shade stored in the three colour bytes at (LY * SCREEN_WIDTH + x) * 4   *)
(* (the fourth byte is always 255).                                        *)

SCREEN_WIDTH == 160

SCREEN_HEIGHT == 144

VIDEO_RAM_SIZE == VIDEO_RAM_END - VIDEO_RAM_START + 1

\* GPU::tile_value_to_background_color
tile_value_to_background_color(g, tile_value) ==
  CASE tile_value = "Zero" -> g.background_window_palette[1]
    [] tile_value = "One" -> g.background_window_palette[2]
    [] tile_value = "Two" -> g.background_window_palette[3]
    [] tile_value = "Three" -> g.background_window_palette[4]

\* the background pass: tile_y_index, tile_map_offset and row_y_offset are
\* computed once before the loop
background_tile_y_index(g) == (g.lcd_y_coordinate + g.scroll_y) % 256

background_tile_map_offset(g) ==
  LET background_tile_map == IF g.background_tile_map = "Ox9800" THEN \h9800 ELSE \h9C00
      tile_map_begin == background_tile_map - VIDEO_RAM_START
      tile_offset == (background_tile_y_index(g) \div 8) * 32
  IN tile_map_begin + tile_offset

\* pixel_x_index and tile_x_index at iteration line_x of the loop: the first
\* starts at scroll_x % 8 and counts modulo 8, the second starts at
\* scroll_x / 8 and is incremented whenever the first returns to 0
background_pixel_x_index(g, line_x) == ((g.scroll_x % 8) + line_x) % 8

background_tile_x_index(g, line_x) ==
  g.scroll_x \div 8 + ((g.scroll_x % 8) + line_x) \div 8

\* the index of video_ram read at iteration line_x
background_cell(g, line_x) ==
  background_tile_map_offset(g) + background_tile_x_index(g, line_x)

\* the iterations the loop completes: indexing video_ram past its end panics,
\* and the indices never decrease along the line
background_drawn(g) ==
  IF g.background_display_enabled
    THEN {line_x \in 0..(SCREEN_WIDTH - 1) : background_cell(g, line_x) < VIDEO_RAM_SIZE}
    ELSE {}

background_panics(g) ==
  g.background_display_enabled /\ background_drawn(g) # 0..(SCREEN_WIDTH - 1)

\* tile_value at iteration line_x
background_tile_value(g, line_x) ==
  LET tile_index == Load(g.video_ram, RAM_FILL, background_cell(g, line_x))
      row_y_offset == background_tile_y_index(g) % 8
  IN Load(g.tile_set, TileRow_default,
          <<tile_index, row_y_offset>>)[background_pixel_x_index(g, line_x) + 1]

\* the local scanline after the background pass (TilePixelValue::Zero where
\* nothing was drawn)
background_scanline(g) ==
  [line_x \in 0..(SCREEN_WIDTH - 1) |->
     IF line_x \in background_drawn(g) THEN background_tile_value(g, line_x) ELSE "Zero"]

\* the object pass: whether obj is on the current line
object_height(g) == IF g.obj_size = "Size8x8" THEN 8 ELSE 16

object_on_line(g, obj) ==
  obj.y <= g.lcd_y_coordinate /\ obj.y + object_height(g) > g.lcd_y_coordinate

\* whether the row comes from obj.tile + 1 (&& binds tighter than ||)
object_next_tile(g, obj) ==
  LET pixel_y_offset == g.lcd_y_coordinate - obj.y IN
  \/ object_height(g) = 16 /\ ~obj.flip_y /\ pixel_y_offset > 7
  \/ obj.flip_y /\ pixel_y_offset < 7

object_tile_row(g, obj) ==
  LET pixel_y_offset == g.lcd_y_coordinate - obj.y
      tile_index == IF object_next_tile(g, obj) THEN (obj.tile + 1) % 256 ELSE obj.tile
      row == IF obj.flip_y THEN 7 - (pixel_y_offset % 8) ELSE pixel_y_offset % 8
  IN Load(g.tile_set, TileRow_default, <<tile_index, row>>)

\* the TilePixelValue of obj at iteration x of its pixel loop
object_pixel(g, obj, x) ==
  object_tile_row(g, obj)[(IF obj.flip_x THEN 7 - x ELSE x) + 1]

\* the iterations of the pixel loop that store a colour
object_writes_pixel(g, obj, scanline, x) ==
  LET x_offset == obj.x + x IN
  /\ x_offset >= 0
  /\ x_offset < SCREEN_WIDTH
  /\ object_pixel(g, obj, x) # "Zero"
  /\ (obj.priority \/ scanline[x_offset] = "Zero")

\* plain arithmetic of the object pass that overflows: obj.tile + 1 on tile
\* 255, and screen_offset += 4 when the offset starts below zero (cast to
\* usize it starts just under 2^64) and climbs back to zero within the eight
\* iterations.  A build with overflow checks panics there; one without wraps,
\* which brings screen_offset back to the offset of the pixel
object_overflows(g, obj) ==
  LET start == g.lcd_y_coordinate * SCREEN_WIDTH + obj.x IN
  /\ object_on_line(g, obj)
  /\ \/ object_next_tile(g, obj) /\ obj.tile = 255
     \/ start < 0 /\ start + 8 >= 0

\* what the pixel loop of one object stores: pixel x_offset of the line to
\* colour
object_pixels(g, obj, scanline) ==
  LET stored == {x \in 0..7 : object_writes_pixel(g, obj, scanline, x)} IN
  [x_offset \in {obj.x + x : x \in stored} |->
     tile_value_to_background_color(g, object_pixel(g, obj, x_offset - obj.x))]

\* later stores replace earlier ones
Overwrite(f, h) ==
  [k \in DOMAIN f \cup DOMAIN h |-> IF k \in DOMAIN h THEN h[k] ELSE f[k]]

\* for obj in self.obj_data.iter(), from entry n on; entries never written
\* are ObjectData::default(), which lies left of the screen
RECURSIVE objects_from(_, _, _, _)
objects_from(g, scanline, n, pixels) ==
  IF n = OAM_NUMBER_OF_OBJECTS THEN pixels
  ELSE IF n \notin DOMAIN g.obj_data THEN objects_from(g, scanline, n + 1, pixels)
  ELSE LET obj == g.obj_data[n] IN
       objects_from(g, scanline, n + 1,
                    IF object_on_line(g, obj)
                      THEN Overwrite(pixels, object_pixels(g, obj, scanline))
                      ELSE pixels)

\* GPU::render_scanline: whether the call panics on a video_ram index,
\* whether it overflows, the pixels the background pass stores, the pixels
\* the object pass stores, and the local scanline
render_scanline(g) ==
  LET scanline == background_scanline(g)
      objects_run == g.obj_display_enable /\ ~background_panics(g)
  IN [panics |-> background_panics(g),
      overflows |-> objects_run /\ \E n \in DOMAIN g.obj_data :
                                      object_overflows(g, g.obj_data[n]),
      scanline |-> scanline,
      background |-> [line_x \in background_drawn(g) |->
                        tile_value_to_background_color(g, scanline[line_x])],
      objects |-> IF objects_run THEN objects_from(g, scanline, 0, <<>>) ELSE <<>>]

\* screen_buffer_offset at iteration line_x of the background loop: it starts
\* at LY * SCREEN_WIDTH * 4 and moves on by 4 a pixel; the iteration stores at
\* the offset and at the three bytes after it
screen_buffer_offset(g, line_x) == g.lcd_y_coordinate * SCREEN_WIDTH * 4 + line_x * 4

---------------------------------------------------------------------------
(* memory_bus.rs: MemoryBus *)

\* MemoryBus::new; game_rom is the finite map of the cartridge's non-zero bytes
MemoryBus_new(boot_rom, game_rom) ==
  [boot_rom |-> boot_rom,
   rom_bank |-> [a \in {x \in DOMAIN game_rom : x <= ROM_BANK_END} |-> game_rom[a]],
   switchable_rom_bank |->
     [o \in {x - ROM_SWITCHABLE_BANK_START :
               x \in {y \in DOMAIN game_rom : y >= ROM_SWITCHABLE_BANK_START
                                               /\ y <= ROM_SWITCHABLE_BANK_END}}
        |-> game_rom[o + ROM_SWITCHABLE_BANK_START]],
   external_ram |-> <<>>,
   working_ram |-> <<>>,
   high_ram |-> <<>>,
   interrupts_enabled |-> Interrupts_new,
   interrupt_flags |-> Interrupts_new,
   timer |-> Timer_new,
   divider |-> [value |-> 0],
   gpu |-> GPU_new]

\* MemoryBus::step
MemoryBus_step(b, cycles) ==
  LET t == Timer_step(b.timer, cycles)
      g == GPU_step(b.gpu, cycles)
      irq == GPU_step_interrupts(b.gpu, g)
  IN [b EXCEPT
        !.timer = t.timer,
        !.divider = Divider_step(b.divider, cycles),
        !.gpu = g,
        !.interrupt_flags =
          [b.interrupt_flags EXCEPT
             !.timer_interrupt = IF t.did_overflow THEN TRUE ELSE @,
             !.vertical_blank_interrupt = irq.vblank,
             !.lcd_c_interrupt = irq.lcd]]

\* MemoryBus::interrupted
interrupted(b) ==
  \/ b.interrupts_enabled.vertical_blank_interrupt
       /\ b.interrupt_flags.vertical_blank_interrupt
  \/ b.interrupts_enabled.lcd_c_interrupt /\ b.interrupt_flags.lcd_c_interrupt
  \/ b.interrupts_enabled.timer_interrupt /\ b.interrupt_flags.timer_interrupt
  \/ b.interrupts_enabled.serial_transfer_interrupt
       /\ b.interrupt_flags.serial_transfer_interrupt
  \/ b.interrupts_enabled.control_interrupt /\ b.interrupt_flags.control_interrupt

\* the addresses read_from_io has an arm for
IO_READABLE ==
  {\hFF00, \hFF01, \hFF02, \hFF04, \hFF05, \hFF06, \hFF07, \hFF0F,
   \hFF40, \hFF41, \hFF42, \hFF43, \hFF44, \hFF45, \hFF4D}

\* MemoryBus::read_from_io
read_from_io(b, address) ==
  CASE address = \hFF04 -> b.divider.value
    [] address = \hFF05 -> b.timer.value
    [] address = \hFF06 -> b.timer.modulo
    [] address = \hFF07 ->
         LET freq == CASE b.timer.frequency = "F4096" -> 0
                       [] b.timer.frequency = "F262144" -> 1
                       [] b.timer.frequency = "F65536" -> 2
                       [] b.timer.frequency = "F16384" -> 3
         IN BitOr(Shl8(BoolU8(b.timer.active), 2), freq)
    [] address = \hFF0F -> Interrupts_to_byte(b.interrupt_flags)
    [] address = \hFF40 ->
         BitOr(BitOr(BitOr(BitOr(BitOr(BitOr(BitOr(
           Shl8(BoolU8(b.gpu.lcd_display_enabled), 7),
           Shl8(BoolU8(b.gpu.window_tile_map = "Ox9C00"), 6)),
           Shl8(BoolU8(b.gpu.window_display_enabled), 5)),
           Shl8(BoolU8(b.gpu.background_window_tile_data = "Ox8000"), 4)),
           Shl8(BoolU8(b.gpu.background_tile_map = "Ox9C00"), 3)),
           Shl8(BoolU8(b.gpu.obj_size = "Size8x16"), 2)),
           Shl8(BoolU8(b.gpu.obj_display_enable), 1)),
           BoolU8(b.gpu.background_display_enabled))
    [] address = \hFF41 ->
         LET mode == CASE b.gpu.lcd_mode = "HBlank" -> 0
                       [] b.gpu.lcd_mode = "VBlank" -> 1
                       [] b.gpu.lcd_mode = "OAMAccess" -> 2
                       [] b.gpu.lcd_mode = "VRAMAccess" -> 3
         IN BitOr(BitOr(BitOr(BitOr(
              Shl8(BoolU8(b.gpu.lyc_interrupt_enabled), 6),
              Shl8(BoolU8(b.gpu.oam_interrupt_enabled), 5)),
              Shl8(BoolU8(b.gpu.vblank_interrupt_enabled), 4)),
              Shl8(BoolU8(b.gpu.hblank_interrupt_enabled), 3)),
              mode)
    [] address = \hFF42 -> b.gpu.scroll_y
    [] address = \hFF43 -> b.gpu.scroll_x
    [] address = \hFF44 -> b.gpu.lcd_y_coordinate
    [] address = \hFF45 -> b.gpu.lcd_y_compare
    [] OTHER -> 0

\* the addresses at which read_byte panics: the unusable range, which has no
\* arm, and the I/O registers read_from_io has no arm for
read_panics(address) ==
  \/ address >= UNUSED_START /\ address <= UNUSED_END
  \/ address >= IO_REGISTERS_START /\ address <= IO_REGISTERS_END
       /\ address \notin IO_READABLE

\* read_byte with the boot range always served from ROM bank 0
read_byte_without_overlay(b, address) ==
  CASE address >= BOOT_ROM_START /\ address <= BOOT_ROM_END ->
         Load(b.rom_bank, ROM_FILL, address)
    [] address > BOOT_ROM_END /\ address <= ROM_BANK_END ->
         Load(b.rom_bank, ROM_FILL, address)
    [] address >= ROM_SWITCHABLE_BANK_START /\ address <= ROM_SWITCHABLE_BANK_END ->
         Load(b.switchable_rom_bank, ROM_FILL, address - ROM_SWITCHABLE_BANK_START)
    [] address >= VIDEO_RAM_START /\ address <= VIDEO_RAM_END ->
         Load(b.gpu.video_ram, RAM_FILL, address - VIDEO_RAM_START)
    [] address >= EXTERNAL_RAM_START /\ address <= EXTERNAL_RAM_END ->
         Load(b.external_ram, RAM_FILL, address - EXTERNAL_RAM_START)
    [] address >= WORKING_RAM_START /\ address <= WORKING_RAM_END ->
         Load(b.working_ram, RAM_FILL, address - WORKING_RAM_START)
    [] address >= ECHO_RAM_START /\ address <= ECHO_RAM_END ->
         Load(b.working_ram, RAM_FILL, address - ECHO_RAM_START)
    [] address >= OAM_START /\ address <= OAM_END ->
         Load(b.gpu.oam, RAM_FILL, address - OAM_START)
    [] address >= IO_REGISTERS_START /\ address <= IO_REGISTERS_END ->
         read_from_io(b, address)
    [] address >= HRAM_START /\ address <= HRAM_END ->
         Load(b.high_ram, RAM_FILL, address - HRAM_START)
    [] address = ENABLE_INTERRUPTS -> Interrupts_to_byte(b.interrupts_enabled)
    [] OTHER -> 0

\* MemoryBus::read_byte (where it does not panic)
read_byte(b, address) ==
  CASE address >= BOOT_ROM_START /\ address <= BOOT_ROM_END ->
         IF b.boot_rom # None THEN b.boot_rom[address + 1]
         ELSE Load(b.rom_bank, ROM_FILL, address)
    [] address > BOOT_ROM_END /\ address <= ROM_BANK_END ->
         Load(b.rom_bank, ROM_FILL, address)
    [] address >= ROM_SWITCHABLE_BANK_START /\ address <= ROM_SWITCHABLE_BANK_END ->
         Load(b.switchable_rom_bank, ROM_FILL, address - ROM_SWITCHABLE_BANK_START)
    [] address >= VIDEO_RAM_START /\ address <= VIDEO_RAM_END ->
         Load(b.gpu.video_ram, RAM_FILL, address - VIDEO_RAM_START)
    [] address >= EXTERNAL_RAM_START /\ address <= EXTERNAL_RAM_END ->
         Load(b.external_ram, RAM_FILL, address - EXTERNAL_RAM_START)
    [] address >= WORKING_RAM_START /\ address <= WORKING_RAM_END ->
         Load(b.working_ram, RAM_FILL, address - WORKING_RAM_START)
    [] address >= ECHO_RAM_START /\ address <= ECHO_RAM_END ->
         Load(b.working_ram, RAM_FILL, address - ECHO_RAM_START)
    [] address >= OAM_START /\ address <= OAM_END ->
         Load(b.gpu.oam, RAM_FILL, address - OAM_START)
    [] address >= IO_REGISTERS_START /\ address <= IO_REGISTERS_END ->
         read_from_io(b, address)
    [] address >= HRAM_START /\ address <= HRAM_END ->
         Load(b.high_ram, RAM_FILL, address - HRAM_START)
    [] address = ENABLE_INTERRUPTS -> Interrupts_to_byte(b.interrupts_enabled)
    [] OTHER -> 0

\* the I/O addresses write_to_io has an arm for
IO_WRITABLE ==
  {\hFF00, \hFF01, \hFF02, \hFF04, \hFF05, \hFF06, \hFF07, \hFF0F}
  \cup (\hFF10..\hFF14) \cup (\hFF16..\hFF1E) \cup (\hFF20..\hFF26)
  \cup (\hFF30..\hFF3F)
  \cup {\hFF40, \hFF41, \hFF42, \hFF43, \hFF45, \hFF46, \hFF47, \hFF48, \hFF49,
        \hFF4A, \hFF4B, \hFF4D, \hFF4F, \hFF50, \hFF68, \hFF69, \hFF7F}

\* the addresses at which write_byte panics
write_panics(address) ==
  address >= IO_REGISTERS_START /\ address <= IO_REGISTERS_END
    /\ address \notin IO_WRITABLE

\* MemoryBus::write_to_io
write_to_io(b, address, byte) ==
  CASE address = \hFF01 -> [b EXCEPT !.interrupt_flags.serial_transfer_interrupt = TRUE]
    [] address = \hFF04 -> [b EXCEPT !.divider.value = 0]
    [] address = \hFF05 -> [b EXCEPT !.timer.value = byte]
    [] address = \hFF06 -> [b EXCEPT !.timer.modulo = byte]
    [] address = \hFF07 ->
         LET clock_select == BitAnd(byte, 3) IN
         [b EXCEPT !.timer.active = BitAnd(Shr(byte, 2), 1) = 1,
                   !.timer.frequency = CASE clock_select = 0 -> "F4096"
                                         [] clock_select = 1 -> "F262144"
                                         [] clock_select = 2 -> "F65536"
                                         [] clock_select = 3 -> "F16384"]
    [] address = \hFF0F -> [b EXCEPT !.interrupt_flags = Interrupts_from_byte(byte)]
    [] address = \hFF40 ->
         [b EXCEPT
            !.gpu.lcd_display_enabled = Shr(byte, 7) = 1,
            !.gpu.window_tile_map =
              IF BitAnd(Shr(byte, 6), 1) = 1 THEN "Ox9C00" ELSE "Ox9800",
            !.gpu.window_display_enabled = BitAnd(Shr(byte, 5), 1) = 1,
            !.gpu.background_window_tile_data =
              IF BitAnd(Shr(byte, 4), 1) = 1 THEN "Ox8000" ELSE "Ox8800",
            !.gpu.background_tile_map =
              IF BitAnd(Shr(byte, 3), 1) = 1 THEN "Ox9C00" ELSE "Ox9800",
            !.gpu.obj_size =
              IF BitAnd(Shr(byte, 2), 1) = 1 THEN "Size8x16" ELSE "Size8x8",
            !.gpu.obj_display_enable = BitAnd(Shr(byte, 1), 1) = 1,
            !.gpu.background_display_enabled = BitAnd(byte, 1) = 1]
    [] address = \hFF41 ->
         [b EXCEPT
            !.gpu.lyc_interrupt_enabled = BitAnd(Shr(byte, 6), 1) = 1,
            !.gpu.oam_interrupt_enabled = BitAnd(Shr(byte, 5), 1) = 1,
            !.gpu.vblank_interrupt_enabled = BitAnd(Shr(byte, 4), 1) = 1,
            !.gpu.hblank_interrupt_enabled = BitAnd(Shr(byte, 3), 1) = 1]
    [] address = \hFF42 -> [b EXCEPT !.gpu.scroll_y = byte]
    [] address = \hFF43 -> [b EXCEPT !.gpu.scroll_x = byte]
    [] address = \hFF45 -> [b EXCEPT !.gpu.lcd_y_compare = byte]
    [] address = \hFF47 -> [b EXCEPT !.gpu.background_window_palette = Palette_from_u8(byte)]
    [] address = \hFF48 -> [b EXCEPT !.gpu.obj_0_palette = Palette_from_u8(byte)]
    [] address = \hFF49 -> [b EXCEPT !.gpu.obj_1_palette = Palette_from_u8(byte)]
    [] address = \hFF4A -> [b EXCEPT !.gpu.window_y = byte]
    [] address = \hFF4B -> [b EXCEPT !.gpu.window_x = byte]
    [] address = \hFF50 -> [b EXCEPT !.boot_rom = None]
    [] OTHER -> b

\* write_byte with the echo range not stored
write_byte_without_echo(b, address, byte) ==
  CASE address >= ROM_BANK_START /\ address <= ROM_BANK_END ->
         [b EXCEPT !.rom_bank = Store(@, ROM_FILL, address, byte)]
    [] address >= ROM_SWITCHABLE_BANK_START /\ address <= ROM_SWITCHABLE_BANK_END ->
         [b EXCEPT !.switchable_rom_bank =
                     Store(@, ROM_FILL, address - ROM_SWITCHABLE_BANK_START, byte)]
    [] address >= VIDEO_RAM_START /\ address <= VIDEO_RAM_END ->
         [b EXCEPT !.gpu = GPU_write_vram(@, address - VIDEO_RAM_START, byte)]
    [] address >= EXTERNAL_RAM_START /\ address <= EXTERNAL_RAM_END ->
         [b EXCEPT !.external_ram = Store(@, RAM_FILL, address - EXTERNAL_RAM_START, byte)]
    [] address >= WORKING_RAM_START /\ address <= WORKING_RAM_END ->
         [b EXCEPT !.working_ram = Store(@, RAM_FILL, address - WORKING_RAM_START, byte)]
    [] address >= ECHO_RAM_START /\ address <= ECHO_RAM_END -> b
    [] address >= OAM_START /\ address <= OAM_END ->
         [b EXCEPT !.gpu = GPU_write_oam(@, address - OAM_START, byte)]
    [] address >= HRAM_START /\ address <= HRAM_END ->
         [b EXCEPT !.high_ram = Store(@, RAM_FILL, address - HRAM_START, byte)]
    [] address >= IO_REGISTERS_START /\ address <= IO_REGISTERS_END ->
         write_to_io(b, address, byte)
    [] address >= UNUSED_START /\ address <= UNUSED_END -> b
    [] address = ENABLE_INTERRUPTS ->
         [b EXCEPT !.interrupts_enabled = Interrupts_from_byte(byte)]

\* MemoryBus::write_byte (where it does not panic); the arm for
\* IO_REGISTERS_START alone that the source puts before the HRAM arm does
\* what the arm for the whole I/O range does
write_byte(b, address, byte) ==
  CASE address >= ROM_BANK_START /\ address <= ROM_BANK_END ->
         [b EXCEPT !.rom_bank = Store(@, ROM_FILL, address, byte)]
    [] address >= ROM_SWITCHABLE_BANK_START /\ address <= ROM_SWITCHABLE_BANK_END ->
         [b EXCEPT !.switchable_rom_bank =
                     Store(@, ROM_FILL, address - ROM_SWITCHABLE_BANK_START, byte)]
    [] address >= VIDEO_RAM_START /\ address <= VIDEO_RAM_END ->
         [b EXCEPT !.gpu = GPU_write_vram(@, address - VIDEO_RAM_START, byte)]
    [] address >= EXTERNAL_RAM_START /\ address <= EXTERNAL_RAM_END ->
         [b EXCEPT !.external_ram = Store(@, RAM_FILL, address - EXTERNAL_RAM_START, byte)]
    [] address >= WORKING_RAM_START /\ address <= WORKING_RAM_END ->
         [b EXCEPT !.working_ram = Store(@, RAM_FILL, address - WORKING_RAM_START, byte)]
    [] address >= ECHO_RAM_START /\ address <= ECHO_RAM_END ->
         [b EXCEPT !.working_ram = Store(@, RAM_FILL, address - ECHO_RAM_START, byte)]
    [] address >= OAM_START /\ address <= OAM_END ->
         [b EXCEPT !.gpu = GPU_write_oam(@, address - OAM_START, byte)]
    [] address >= HRAM_START /\ address <= HRAM_END ->
         [b EXCEPT !.high_ram = Store(@, RAM_FILL, address - HRAM_START, byte)]
    [] address >= IO_REGISTERS_START /\ address <= IO_REGISTERS_END ->
         write_to_io(b, address, byte)
    [] address >= UNUSED_START /\ address <= UNUSED_END -> b
    [] address = ENABLE_INTERRUPTS ->
         [b EXCEPT !.interrupts_enabled = Interrupts_from_byte(byte)]

---------------------------------------------------------------------------
(* cpu/mod.rs.  The helpers work on a machine m = [cpu, bus, panic,        *)
(* ticked, vectors]: the CPU and its bus, whether a bus access has         *)
(* panicked, the cycles handed to MemoryBus::step so far in this step()    *)
(* and the interrupt vectors entered so far in this step().                *)

\* CPU::new
CPU_new == [is_halted |-> FALSE, interrupt_enabled |-> TRUE,
            pc |-> 0, sp |-> 0, registers |-> Registers_new]

Machine(c, b) == [cpu |-> c, bus |-> b, panic |-> FALSE, ticked |-> 0, vectors |-> <<>>]

\* self.bus.write_byte(address, value)
bus_write(m, address, value) ==
  [m EXCEPT !.bus = IF write_panics(address) THEN @ ELSE write_byte(@, address, value),
            !.panic = @ \/ write_panics(address)]

\* CPU::read_next_byte and CPU::read_next_word; pc + 1 and pc + 2 are plain
\* u16 additions, which overflow at the top of the address space
read_next_byte(m) == read_byte(m.bus, (m.cpu.pc + 1) % 65536)
read_next_word(m) ==
  BitOr(Shl16(read_byte(m.bus, (m.cpu.pc + 2) % 65536), 8),
        read_byte(m.bus, (m.cpu.pc + 1) % 65536))
next_byte_panics(m) == read_panics((m.cpu.pc + 1) % 65536)
next_word_panics(m) ==
  read_panics((m.cpu.pc + 2) % 65536) \/ read_panics((m.cpu.pc + 1) % 65536)

\* push storing the low byte first
push_low_byte_first(m, value) ==
  LET sp1 == wrapping_sub16(m.cpu.sp, 1)
      m1 == bus_write(m, sp1, BitAnd(value, \hFF))
      sp2 == wrapping_sub16(sp1, 1)
      m2 == bus_write(m1, sp2, Shr(BitAnd(value, \hFF00), 8))
  IN [m2 EXCEPT !.cpu.sp = sp2]

\* CPU::push
push(m, value) ==
  LET sp1 == wrapping_sub16(m.cpu.sp, 1)
      m1 == bus_write(m, sp1, Shr(BitAnd(value, \hFF00), 8))
      sp2 == wrapping_sub16(sp1, 1)
      m2 == bus_write(m1, sp2, BitAnd(value, \hFF))
  IN [m2 EXCEPT !.cpu.sp = sp2]

\* pop reading the high byte first
pop_high_byte_first(m) ==
  LET msb == read_byte(m.bus, m.cpu.sp)
      sp1 == wrapping_add16(m.cpu.sp, 1)
      lsb == read_byte(m.bus, sp1)
      sp2 == wrapping_add16(sp1, 1)
  IN [m |-> [m EXCEPT !.cpu.sp = sp2,
                      !.panic = @ \/ read_panics(m.cpu.sp) \/ read_panics(sp1)],
      value |-> BitOr(Shl16(msb, 8), lsb)]

\* CPU::pop: the machine after the pop and the word popped
pop(m) ==
  LET lsb == read_byte(m.bus, m.cpu.sp)
      sp1 == wrapping_add16(m.cpu.sp, 1)
      msb == read_byte(m.bus, sp1)
      sp2 == wrapping_add16(sp1, 1)
  IN [m |-> [m EXCEPT !.cpu.sp = sp2,
                      !.panic = @ \/ read_panics(m.cpu.sp) \/ read_panics(sp1)],
      value |-> BitOr(Shl16(msb, 8), lsb)]

\* the match on JumpTest that CALL, RET, JP and JR each repeat
jump_condition(m, test) ==
  CASE test = "NotZero" -> ~m.cpu.registers.f.zero
    [] test = "Zero" -> m.cpu.registers.f.zero
    [] test = "Carry" -> m.cpu.registers.f.carry
    [] test = "NotCarry" -> ~m.cpu.registers.f.carry
    [] test = "Always" -> TRUE

\* impl From<RestartOffset> for u16
RestartOffset_to_u16(offset) ==
  CASE offset = "D00H" -> \h00
    [] offset = "D08H" -> \h08
    [] offset = "D10H" -> \h10
    [] offset = "D18H" -> \h18
    [] offset = "D20H" -> \h20
    [] offset = "D28H" -> \h28
    [] offset = "D30H" -> \h30
    [] offset = "D38H" -> \h38

\* what execute returns: the machine, the next pc and the cycle cost
Done(m, next_pc, cycles) == [m |-> m, next_pc |-> next_pc, cycles |-> cycles]

\* CPU::jump
jump(m, should_jump) ==
  IF should_jump
    THEN Done([m EXCEPT !.panic = @ \/ next_word_panics(m)], read_next_word(m), 16)
    ELSE Done(m, wrapping_add16(m.cpu.pc, 3), 12)

\* CPU::restart
restart(m, address) ==
  Done(push(m, wrapping_add16(m.cpu.pc, 1)), RestartOffset_to_u16(address), 16)

\* the target of a taken JR: the operand byte as i8 added to next_pc
\* (abs() of -128 is -128 where it does not panic, 0xFF80 as u16)
relative_target(next_pc, byte) ==
  IF byte < 128 THEN wrapping_add16(next_pc, byte)
  ELSE IF byte = 128 THEN wrapping_sub16(next_pc, \hFF80)
  ELSE wrapping_sub16(next_pc, 256 - byte)

\* CPU::jump_relative
jump_relative(m, should_jump) ==
  IF should_jump
    THEN Done([m EXCEPT !.panic = @ \/ next_byte_panics(m)],
              relative_target(wrapping_add16(m.cpu.pc, 2), read_next_byte(m)), 12)
    ELSE Done(m, wrapping_add16(m.cpu.pc, 2), 8)

\* CPU::call from the pushed return address on
call_pushed(m1) ==
  Done([m1 EXCEPT !.panic = @ \/ next_word_panics(m1)], read_next_word(m1), 24)

\* CPU::call
call(m, should_jump) ==
  IF should_jump
    THEN call_pushed(push(m, wrapping_add16(m.cpu.pc, 3)))
    ELSE Done(m, wrapping_add16(m.cpu.pc, 3), 12)

\* the 8-bit registers LoadByteSource and LoadByteTarget name
Reg8(r, name) ==
  CASE name = "A" -> r.a [] name = "B" -> r.b [] name = "C" -> r.c
    [] name = "D" -> r.d [] name = "E" -> r.e [] name = "H" -> r.h
    [] name = "L" -> r.l

SetReg8(r, name, v) ==
  CASE name = "A" -> [r EXCEPT !.a = v] [] name = "B" -> [r EXCEPT !.b = v]
    [] name = "C" -> [r EXCEPT !.c = v] [] name = "D" -> [r EXCEPT !.d = v]
    [] name = "E" -> [r EXCEPT !.e = v] [] name = "H" -> [r EXCEPT !.h = v]
    [] name = "L" -> [r EXCEPT !.l = v]

\* the register pairs StackTarget and LoadWordTarget name
Pair(r, name) ==
  CASE name = "AF" -> get_af(r) [] name = "BC" -> get_bc(r)
    [] name = "DE" -> get_de(r) [] name = "HL" -> get_hl(r)

SetPair(r, name, v) ==
  CASE name = "AF" -> set_af(r, v) [] name = "BC" -> set_bc(r, v)
    [] name = "DE" -> set_de(r, v) [] name = "HL" -> set_hl(r, v)

\* LoadType::HLFromSPN with the operand byte read: n is the byte as i8 as u16
load_hl_from_sp(m, byte) ==
  LET n == IF byte >= 128 THEN byte + \hFF00 ELSE byte IN
  [m EXCEPT
     !.cpu.registers =
       [set_hl(@, wrapping_add16(m.cpu.sp, n)) EXCEPT
          !.f = [zero |-> FALSE, subtract |-> FALSE,
                 half_carry |-> BitAnd(m.cpu.sp, \hF) + BitAnd(n, \hF) > \hF,
                 carry |-> BitAnd(m.cpu.sp, \hFF) + BitAnd(n, \hFF) > \hFF]],
     !.panic = @ \/ next_byte_panics(m)]

\* LoadType::IndirectFromSP with the operand word read
store_sp(m, address) ==
  bus_write(bus_write([m EXCEPT !.panic = @ \/ next_word_panics(m)],
                      address, BitAnd(m.cpu.sp, \hFF)),
            wrapping_add16(address, 1), Shr(BitAnd(m.cpu.sp, \hFF00), 8))

\* LoadType::Byte: the match on the source
load_byte_source(m, source) ==
  CASE source = "D8" -> read_next_byte(m)
    [] source = "HLI" -> read_byte(m.bus, get_hl(m.cpu.registers))
    [] OTHER -> Reg8(m.cpu.registers, source)

\* LoadType::Byte: the match on the target
load_byte_target(m, target, source_value) ==
  IF target = "HLI"
    THEN bus_write(m, get_hl(m.cpu.registers), source_value)
    ELSE [m EXCEPT !.cpu.registers = SetReg8(@, target, source_value)]

\* LoadType::Word with the operand word read
load_word(m, target, word) ==
  IF target = "SP"
    THEN [m EXCEPT !.cpu.sp = word, !.panic = @ \/ next_word_panics(m)]
    ELSE [m EXCEPT !.cpu.registers = SetPair(@, target, word),
                   !.panic = @ \/ next_word_panics(m)]

\* the address LoadType::IndirectFromA and LoadType::AFromIndirect use
indirect_address(m, target) ==
  CASE target = "BC" -> get_bc(m.cpu.registers)
    [] target = "DE" -> get_de(m.cpu.registers)
    [] target = "HLPlus" -> get_hl(m.cpu.registers)
    [] target = "HLMinus" -> get_hl(m.cpu.registers)
    [] target = "Word" -> read_next_word(m)
    [] target = "LastByte" -> \hFF00 + m.cpu.registers.c

\* the update of HL that the HLPlus and HLMinus arms make, and the panic of
\* an unreadable operand word
indirect_update(m, target) ==
  CASE target = "HLPlus" ->
         [m EXCEPT !.cpu.registers = set_hl(@, wrapping_add16(get_hl(@), 1))]
    [] target = "HLMinus" ->
         [m EXCEPT !.cpu.registers = set_hl(@, wrapping_sub16(get_hl(@), 1))]
    [] target = "Word" -> [m EXCEPT !.panic = @ \/ next_word_panics(m)]
    [] OTHER -> m

\* A := the byte at address
load_a(m, address) ==
  [m EXCEPT !.cpu.registers.a = read_byte(m.bus, address),
            !.panic = @ \/ read_panics(address)]

\* CPU::execute, Instruction::LD(load_type)
execute_load(m, i) ==
  LET pc == m.cpu.pc IN
  CASE i[2] = "SPFromHL" ->
         Done([m EXCEPT !.cpu.sp = get_hl(m.cpu.registers)], wrapping_add16(pc, 1), 8)
    [] i[2] = "HLFromSPN" ->
         Done(load_hl_from_sp(m, read_next_byte(m)), wrapping_add16(pc, 2), 12)
    [] i[2] = "IndirectFromSP" ->
         Done(store_sp(m, read_next_word(m)), wrapping_add16(pc, 3), 20)
    [] i[2] = "Byte" ->
         Done(load_byte_target(
                [m EXCEPT !.panic =
                   @ \/ (i[4] = "D8" /\ next_byte_panics(m))
                     \/ (i[4] = "HLI" /\ read_panics(get_hl(m.cpu.registers)))],
                i[3], load_byte_source(m, i[4])),
              wrapping_add16(pc, IF i[4] = "D8" THEN 2 ELSE 1),
              IF i[4] \in {"D8", "HLI"} THEN 8 ELSE 4)
    [] i[2] = "Word" ->
         Done(load_word(m, i[3], read_next_word(m)), wrapping_add16(pc, 3), 12)
    [] i[2] = "IndirectFromA" ->
         Done(bus_write(indirect_update(m, i[3]), indirect_address(m, i[3]),
                        m.cpu.registers.a),
              wrapping_add16(pc, IF i[3] = "Word" THEN 3 ELSE 1),
              IF i[3] = "Word" THEN 16 ELSE 8)
    [] i[2] = "AFromIndirect" ->
         Done(load_a(indirect_update(m, i[3]), indirect_address(m, i[3])),
              wrapping_add16(pc, IF i[3] = "Word" THEN 3 ELSE 1),
              IF i[3] = "Word" THEN 16 ELSE 8)
    [] i[2] = "ByteAddressFromA" ->
         Done(bus_write([m EXCEPT !.panic = @ \/ next_byte_panics(m)],
                        \hFF00 + read_next_byte(m), m.cpu.registers.a),
              wrapping_add16(pc, 2), 12)
    [] i[2] = "AFromByteAddress" ->
         Done(load_a([m EXCEPT !.panic = @ \/ next_byte_panics(m)],
                     \hFF00 + read_next_byte(m)),
              wrapping_add16(pc, 2), 12)

\* the instructions whose arm of CPU::execute is modelled: control, stack,
\* load and jump instructions (the arithmetic and bit instructions are not)
Modelled(i) ==
  i # None /\ i[1] \in {"NOP", "HALT", "STOP", "EI", "DI", "RETI", "RST", "POP",
                        "PUSH", "CALL", "RET", "LD", "JP", "JR", "JPHL"}

\* what the arms of CPU::execute do with the result p of CPU::pop
pop_enabling(p) == Done([p.m EXCEPT !.cpu.interrupt_enabled = TRUE], p.value, 16)
pop_into(p, target, next_pc) ==
  Done([p.m EXCEPT !.cpu.registers = SetPair(@, target, p.value)], next_pc, 12)
pop_returning(p, cycles) == Done(p.m, p.value, cycles)

\* CPU::execute
execute(m, i) ==
  LET pc == m.cpu.pc IN
  CASE i[1] = "NOP" -> Done(m, wrapping_add16(pc, 1), 4)
    [] i[1] = "HALT" -> Done([m EXCEPT !.cpu.is_halted = TRUE], wrapping_add16(pc, 1), 4)
    [] i[1] = "STOP" -> Done([m EXCEPT !.cpu.is_halted = TRUE], wrapping_add16(pc, 1), 4)
    [] i[1] = "EI" ->
         Done([m EXCEPT !.cpu.interrupt_enabled = TRUE], wrapping_add16(pc, 1), 4)
    [] i[1] = "DI" ->
         Done([m EXCEPT !.cpu.interrupt_enabled = FALSE], wrapping_add16(pc, 1), 4)
    [] i[1] = "RETI" -> pop_enabling(pop(m))
    [] i[1] = "RST" -> restart(m, i[2])
    [] i[1] = "POP" -> pop_into(pop(m), i[2], wrapping_add16(pc, 1))
    [] i[1] = "PUSH" ->
         Done(push(m, Pair(m.cpu.registers, i[2])), wrapping_add16(pc, 1), 16)
    [] i[1] = "CALL" -> call(m, jump_condition(m, i[2]))
    [] i[1] = "RET" ->
         IF jump_condition(m, i[2])
           THEN pop_returning(pop(m), IF i[2] = "Always" THEN 16 ELSE 20)
           ELSE Done(m, wrapping_add16(pc, 1), 8)
    [] i[1] = "LD" -> execute_load(m, i)
    [] i[1] = "JP" -> jump(m, jump_condition(m, i[2]))
    [] i[1] = "JR" -> jump_relative(m, jump_condition(m, i[2]))
    [] i[1] = "JPHL" -> Done(m, get_hl(m.cpu.registers), 4)

\* self.bus.step(cycles) as CPU::step and CPU::interrupt call it
bus_step(m, cycles) ==
  [m EXCEPT !.bus = MemoryBus_step(@, cycles), !.ticked = @ + cycles]

\* CPU::interrupt from the pushed return address on
interrupt_pushed(m1, location) ==
  bus_step([m1 EXCEPT !.cpu.pc = location, !.vectors = Append(@, location)], 12)

\* CPU::interrupt
interrupt(m, location) ==
  interrupt_pushed(push([m EXCEPT !.cpu.interrupt_enabled = FALSE], m.cpu.pc), location)

\* the three dispatch blocks of CPU::step, in source order; each tests the
\* flags as the previous block (and its bus.step(12)) left them
service_vblank(m) ==
  IF m.bus.interrupts_enabled.vertical_blank_interrupt
     /\ m.bus.interrupt_flags.vertical_blank_interrupt
    THEN interrupt([m EXCEPT !.bus.interrupt_flags.vertical_blank_interrupt = FALSE],
                   InterruptLocation.VBlank)
    ELSE m

service_lcd(m) ==
  IF m.bus.interrupts_enabled.lcd_c_interrupt /\ m.bus.interrupt_flags.lcd_c_interrupt
    THEN interrupt([m EXCEPT !.bus.interrupt_flags.lcd_c_interrupt = FALSE],
                   InterruptLocation.LCD)
    ELSE m

service_timer(m) ==
  IF m.bus.interrupts_enabled.timer_interrupt /\ m.bus.interrupt_flags.timer_interrupt
    THEN interrupt([m EXCEPT !.bus.interrupt_flags.timer_interrupt = FALSE],
                   InterruptLocation.Timer)
    ELSE m

service_interrupts(m) ==
  IF m.cpu.interrupt_enabled
    THEN service_timer(service_lcd(service_vblank(m)))
    ELSE m

\* CPU::step after self.bus.step(cycles): leave HALT on an enabled pending
\* interrupt, then move pc unless halted
leave_halt(m, next_pc) ==
  LET halted == m.cpu.is_halted /\ ~interrupted(m.bus) IN
  [m EXCEPT !.cpu.is_halted = halted, !.cpu.pc = IF halted THEN @ ELSE next_pc]

\* the result of step(): the machine when the dispatch blocks were reached,
\* the machine after them and the cycles returned
step_result(checked, m, cycles) ==
  [m |-> m, checked |-> checked,
   cycles |-> IF m.vectors # <<>> THEN cycles + 12 ELSE cycles]

dispatch(checked, cycles) == step_result(checked, service_interrupts(checked), cycles)

\* CPU::step from the executed instruction on: tick the bus, leave HALT,
\* move pc, dispatch
after_execute(x) == dispatch(leave_halt(bus_step(x.m, x.cycles), x.next_pc), x.cycles)

---------------------------------------------------------------------------
(* cpu/mod.rs: the arithmetic helpers.  Each takes the CPU c and returns   *)
(* the CPU with its flags set and the value the helper returns; the arm    *)
(* of CPU::execute stores the value.                                       *)

\* CPU::add with the carry flag taken from the first addition only
add_first_overflow_only(c, value, add_carry) ==
  LET additional_carry == IF add_carry /\ c.registers.f.carry THEN 1 ELSE 0
      sum == c.registers.a + value
      add2 == ((sum % 256) + additional_carry) % 256
  IN [cpu |-> [c EXCEPT !.registers.f =
                 [zero |-> add2 = 0, subtract |-> FALSE,
                  half_carry |-> BitAnd(c.registers.a, \h0F) + BitAnd(value, \h0F)
                                   + additional_carry > \h0F,
                  carry |-> sum > 255]],
      value |-> add2]

\* CPU::add never reporting a carry out of the low nibble
add_without_half_carry(c, value, add_carry) ==
  LET additional_carry == IF add_carry /\ c.registers.f.carry THEN 1 ELSE 0
      sum == c.registers.a + value
      sum2 == (sum % 256) + additional_carry
      add2 == sum2 % 256
  IN [cpu |-> [c EXCEPT !.registers.f =
                 [zero |-> add2 = 0, subtract |-> FALSE, half_carry |-> FALSE,
                  carry |-> sum > 255 \/ sum2 > 255]],
      value |-> add2]

\* CPU::add
add(c, value, add_carry) ==
  LET additional_carry == IF add_carry /\ c.registers.f.carry THEN 1 ELSE 0
      sum == c.registers.a + value
      did_overflow == sum > 255
      sum2 == (sum % 256) + additional_carry
      did_overflow2 == sum2 > 255
      add2 == sum2 % 256
  IN [cpu |-> [c EXCEPT !.registers.f =
                 [zero |-> add2 = 0, subtract |-> FALSE,
                  half_carry |-> BitAnd(c.registers.a, \h0F) + BitAnd(value, \h0F)
                                   + additional_carry > \h0F,
                  carry |-> did_overflow \/ did_overflow2]],
      value |-> add2]

\* CPU::add_without_carry and CPU::add_with_carry
add_without_carry(c, value) == add(c, value, FALSE)
add_with_carry(c, value) == add(c, value, TRUE)

\* CPU::sub
sub(c, value, sub_carry) ==
  LET additional_carry == IF sub_carry /\ c.registers.f.carry THEN 1 ELSE 0
      did_overflow == c.registers.a < value
      sub1 == (c.registers.a - value + 256) % 256
      did_overflow2 == sub1 < additional_carry
      sub2 == (sub1 - additional_carry + 256) % 256
  IN [cpu |-> [c EXCEPT !.registers.f =
                 [zero |-> sub2 = 0, subtract |-> TRUE,
                  half_carry |-> BitAnd(c.registers.a, \h0F)
                                   < BitAnd(value, \h0F) + additional_carry,
                  carry |-> did_overflow \/ did_overflow2]],
      value |-> sub2]

\* CPU::sub_without_carry and CPU::sub_with_carry
sub_without_carry(c, value) == sub(c, value, FALSE)
sub_with_carry(c, value) == sub(c, value, TRUE)

\* CPU::compare: only the flags change
compare(c, value) ==
  [c EXCEPT !.registers.f =
     [zero |-> c.registers.a = value, subtract |-> TRUE,
      half_carry |-> BitAnd(c.registers.a, \h0F) < BitAnd(value, \h0F),
      carry |-> c.registers.a < value]]

\* the carry mask of CPU::add_hl, 0b111_1111_1111
CARRY_MASK == \h07FF

\* CPU::add_hl: the zero flag is left alone
add_hl(c, value) ==
  LET hl == get_hl(c.registers)
      did_overflow == hl + value > 65535
  IN [cpu |-> [c EXCEPT !.registers.f.carry = did_overflow,
                        !.registers.f.subtract = FALSE,
                        !.registers.f.half_carry =
                          BitAnd(value, CARRY_MASK) + BitAnd(hl, CARRY_MASK) > CARRY_MASK],
      value |-> (hl + value) % 65536]

\* CPU::decimal_adjust with the incoming carry kept when nothing is adjusted
decimal_adjust_keeping_carry(c, value) ==
  LET f == c.registers.f
      high == ~f.subtract /\ (f.carry \/ value > \h99)
      low == ~f.subtract /\ (f.half_carry \/ BitAnd(value, \h0F) > \h09)
      result ==
        IF ~f.subtract
          THEN wrapping_add8(wrapping_add8(value, IF high THEN \h60 ELSE 0),
                             IF low THEN \h06 ELSE 0)
        ELSE IF f.carry THEN wrapping_add8(value, IF f.half_carry THEN \h9A ELSE \hA0)
        ELSE IF f.half_carry THEN wrapping_add8(value, \hFA)
        ELSE value
  IN [cpu |-> [c EXCEPT !.registers.f.carry = f.carry], value |-> result]

\* CPU::decimal_adjust
decimal_adjust(c, value) ==
  LET f == c.registers.f
      high == ~f.subtract /\ (f.carry \/ value > \h99)
      low == ~f.subtract /\ (f.half_carry \/ BitAnd(value, \h0F) > \h09)
      result ==
        IF ~f.subtract
          THEN wrapping_add8(wrapping_add8(value, IF high THEN \h60 ELSE 0),
                             IF low THEN \h06 ELSE 0)
        ELSE IF f.carry THEN wrapping_add8(value, IF f.half_carry THEN \h9A ELSE \hA0)
        ELSE IF f.half_carry THEN wrapping_add8(value, \hFA)
        ELSE value
      carry == high \/ (f.subtract /\ f.carry)
  IN [cpu |-> [c EXCEPT !.registers.f.carry = carry], value |-> result]

\* the operand an ArithmeticTarget names in the arms of ADD, ADC, SUB, SBC
\* and CP
arithmetic_operand(m, target) ==
  CASE target = "A" -> m.cpu.registers.a
    [] target = "B" -> m.cpu.registers.b
    [] target = "C" -> m.cpu.registers.c
    [] target = "D" -> m.cpu.registers.d
    [] target = "E" -> m.cpu.registers.e
    [] target = "H" -> m.cpu.registers.h
    [] target = "L" -> m.cpu.registers.l
    [] target = "D8" -> read_next_byte(m)
    [] target = "HLI" -> read_byte(m.bus, get_hl(m.cpu.registers))

\* what those arms return after the operation
arithmetic_done(m, target) ==
  IF target = "D8" THEN Done(m, wrapping_add16(m.cpu.pc, 2), 8)
  ELSE IF target = "HLI" THEN Done(m, wrapping_add16(m.cpu.pc, 1), 8)
  ELSE Done(m, wrapping_add16(m.cpu.pc, 1), 4)

\* the arms of ADD, ADC, SUB and SBC store the value the helper returns in A
store_a(m, r, target) ==
  arithmetic_done([m EXCEPT !.cpu = [r.cpu EXCEPT !.registers.a = r.value]], target)

\* the operand an ArithmeticHLTarget names
arithmetic_hl_operand(m, target) ==
  CASE target = "BC" -> get_bc(m.cpu.registers)
    [] target = "DE" -> get_de(m.cpu.registers)
    [] target = "HL" -> get_hl(m.cpu.registers)
    [] target = "SP" -> m.cpu.sp

\* the arms of CPU::execute for ADD, ADC, SUB, SBC, CP, ADDHL and DAA
execute_arithmetic(m, i) ==
  CASE i[1] = "ADC" -> store_a(m, add_with_carry(m.cpu, arithmetic_operand(m, i[2])), i[2])
    [] i[1] = "ADD" -> store_a(m, add_without_carry(m.cpu, arithmetic_operand(m, i[2])), i[2])
    [] i[1] = "SUB" -> store_a(m, sub_without_carry(m.cpu, arithmetic_operand(m, i[2])), i[2])
    [] i[1] = "SBC" -> store_a(m, sub_with_carry(m.cpu, arithmetic_operand(m, i[2])), i[2])
    [] i[1] = "CP" ->
         arithmetic_done([m EXCEPT !.cpu = compare(m.cpu, arithmetic_operand(m, i[2]))],
                         i[2])
    [] i[1] = "ADDHL" ->
         LET r == add_hl(m.cpu, arithmetic_hl_operand(m, i[2])) IN
         Done([m EXCEPT !.cpu = [r.cpu EXCEPT !.registers = set_hl(@, r.value)]],
              wrapping_add16(m.cpu.pc, 1), 8)
    [] i[1] = "DAA" ->
         LET r == decimal_adjust(m.cpu, m.cpu.registers.a) IN
         Done([m EXCEPT !.cpu = [r.cpu EXCEPT !.registers.f.zero = r.value = 0,
                                              !.registers.f.half_carry = FALSE,
                                              !.registers.a = r.value]],
              wrapping_add16(m.cpu.pc, 1), 4)

---------------------------------------------------------------------------
(* cpu/mod.rs: the rotate and shift helpers and the CB-prefixed arms of    *)
(* CPU::execute that apply them.  Each helper takes the CPU c and returns  *)
(* the CPU with its flags set and the new value.                           *)

\* the flags every rotate and shift helper leaves
shifted(c, new_value, zero, carry) ==
  [cpu |-> [c EXCEPT !.registers.f = [zero |-> zero, subtract |-> FALSE,
                                      half_carry |-> FALSE, carry |-> carry]],
   value |-> new_value]

\* rotate_right_through_carry with the carry entering at bit 0
rotate_right_through_carry_into_bit0(c, value, set_zero) ==
  LET carry_bit == IF c.registers.f.carry THEN 1 ELSE 0
      new_value == BitOr(carry_bit, value \div 2)
  IN shifted(c, new_value, set_zero /\ new_value = 0, BitAnd(value, 1) = 1)

\* CPU::rotate_right_through_carry
rotate_right_through_carry(c, value, set_zero) ==
  LET carry_bit == (IF c.registers.f.carry THEN 1 ELSE 0) * 128
      new_value == BitOr(carry_bit, value \div 2)
  IN shifted(c, new_value, set_zero /\ new_value = 0, BitAnd(value, 1) = 1)

\* CPU::rotate_left_through_carry
rotate_left_through_carry(c, value, set_zero) ==
  LET carry_bit == IF c.registers.f.carry THEN 1 ELSE 0
      new_value == BitOr((value * 2) % 256, carry_bit)
  IN shifted(c, new_value, set_zero /\ new_value = 0, BitAnd(value, \h80) = \h80)

\* CPU::rotate_right (u8::rotate_right(1))
rotate_right(c, value, set_zero) ==
  LET new_value == BitOr(value \div 2, (value % 2) * 128)
  IN shifted(c, new_value, set_zero /\ new_value = 0, BitAnd(value, 1) = 1)

\* CPU::rotate_left (u8::rotate_left(1), or-ed with the bit rotated out)
rotate_left(c, value, set_zero) ==
  LET carry == BitAnd(value, \h80) \div 128
      new_value == BitOr(BitOr((value * 2) % 256, value \div 128), carry)
  IN shifted(c, new_value, set_zero /\ new_value = 0, carry = 1)

\* the wrappers the CB-prefixed arms call
rotate_right_through_carry_set_zero(c, value) == rotate_right_through_carry(c, value, TRUE)
rotate_left_through_carry_set_zero(c, value) == rotate_left_through_carry(c, value, TRUE)
rotate_right_set_zero(c, value) == rotate_right(c, value, TRUE)
rotate_left_set_zero(c, value) == rotate_left(c, value, TRUE)

\* CPU::shift_right_logical
shift_right_logical(c, value) ==
  LET new_value == value \div 2
  IN shifted(c, new_value, new_value = 0, BitAnd(value, 1) = 1)

\* CPU::shift_left_arithmetic
shift_left_arithmetic(c, value) ==
  LET new_value == (value * 2) % 256
  IN shifted(c, new_value, new_value = 0, BitAnd(value, \h80) = \h80)

\* CPU::shift_right_arithmetic
shift_right_arithmetic(c, value) ==
  LET msb == BitAnd(value, \h80)
      new_value == BitOr(msb, value \div 2)
  IN shifted(c, new_value, new_value = 0, BitAnd(value, 1) = 1)

\* the operand a PrefixTarget names: a register, or the byte at HL
prefix_operand(m, target) ==
  IF target = "HLI" THEN read_byte(m.bus, get_hl(m.cpu.registers))
  ELSE Reg8(m.cpu.registers, target)

\* the result stored where the operand came from, and what the arm returns
prefix_store(m, r, target) ==
  IF target = "HLI"
    THEN Done(bus_write([m EXCEPT !.cpu = r.cpu], get_hl(r.cpu.registers), r.value),
              wrapping_add16(m.cpu.pc, 2), 16)
    ELSE Done([m EXCEPT !.cpu = [r.cpu EXCEPT !.registers = SetReg8(@, target, r.value)]],
              wrapping_add16(m.cpu.pc, 2), 8)

\* CPU::execute: the arms SRL, RR, RL, RRC, RLC, SRA and SLA
execute_rotate(m, i) ==
  LET value == prefix_operand(m, i[2]) IN
  CASE i[1] = "SRL" -> prefix_store(m, shift_right_logical(m.cpu, value), i[2])
    [] i[1] = "RR" -> prefix_store(m, rotate_right_through_carry_set_zero(m.cpu, value), i[2])
    [] i[1] = "RL" -> prefix_store(m, rotate_left_through_carry_set_zero(m.cpu, value), i[2])
    [] i[1] = "RRC" -> prefix_store(m, rotate_right_set_zero(m.cpu, value), i[2])
    [] i[1] = "RLC" -> prefix_store(m, rotate_left_set_zero(m.cpu, value), i[2])
    [] i[1] = "SRA" -> prefix_store(m, shift_right_arithmetic(m.cpu, value), i[2])
    [] i[1] = "SLA" -> prefix_store(m, shift_left_arithmetic(m.cpu, value), i[2])

\* how many operand bytes execute reads after the opcode (through
\* read_next_byte or read_next_word) for instruction i in machine m
operand_bytes(m, i) ==
  CASE i[1] \in {"JP", "CALL"} -> IF jump_condition(m, i[2]) THEN 2 ELSE 0
    [] i[1] = "JR" -> IF jump_condition(m, i[2]) THEN 1 ELSE 0
    [] i[1] = "LD" ->
         CASE i[2] \in {"Word", "IndirectFromSP"} -> 2
           [] i[2] \in {"HLFromSPN", "ByteAddressFromA", "AFromByteAddress"} -> 1
           [] i[2] = "Byte" -> IF i[4] = "D8" THEN 1 ELSE 0
           [] i[2] \in {"IndirectFromA", "AFromIndirect"} ->
                IF i[3] = "Word" THEN 2 ELSE 0
           [] OTHER -> 0
    [] OTHER -> 0

\* whether executing i in m overflows plain arithmetic: pc + 1 or pc + 2 past
\* the top of the address space, or abs() of the JR offset -128
overflows(m, i) ==
  \/ m.cpu.pc + operand_bytes(m, i) > \hFFFF
  \/ i[1] = "JR" /\ jump_condition(m, i[2]) /\ read_next_byte(m) = 128
  \/ i[1] = "STOP" /\ ~m.cpu.is_halted /\ m.cpu.pc = \hFFFF

---------------------------------------------------------------------------
(* The state machine *)

\* the longest run of operations explored
MaxSteps == 56

NoObs ==
  [op |-> "none", opcode |-> 0, prefixed |-> FALSE, instr |-> None, pc0 |-> 0,
   sp0 |-> 0, regs0 |-> Registers_new, ime0 |-> FALSE, halted0 |-> FALSE,
   ime_check |-> FALSE, if_check |-> 0, ie_check |-> 0, pc_check |-> 0,
   sp_check |-> 0, vectors |-> <<>>, cycles |-> 0, instr_cycles |-> 0, ticked |-> 0]

NoProbe == [op |-> "none"]

\* a stop that has already moved past the opcode
Panic_past_opcode(reason) ==
  /\ fatal' = reason
  /\ obs' = [NoObs EXCEPT !.op = "panic", !.pc0 = cpu.pc, !.sp0 = cpu.sp,
                          !.regs0 = cpu.registers, !.ime0 = cpu.interrupt_enabled,
                          !.halted0 = cpu.is_halted]
  /\ cpu' = [cpu EXCEPT !.pc = wrapping_add16(@, 1)]
  /\ UNCHANGED bus

\* the core stops: a panic! in the source
Panic(reason) ==
  /\ fatal' = reason
  /\ obs' = [NoObs EXCEPT !.op = "panic", !.pc0 = cpu.pc, !.sp0 = cpu.sp,
                          !.regs0 = cpu.registers, !.ime0 = cpu.interrupt_enabled,
                          !.halted0 = cpu.is_halted]
  /\ UNCHANGED <<cpu, bus>>

\* CPU::step returns r
Complete(instruction_byte, prefixed, instruction, instr_cycles, r) ==
  /\ cpu' = r.m.cpu
  /\ bus' = r.m.bus
  /\ fatal' = fatal
  /\ obs' = [op |-> "step", opcode |-> instruction_byte, prefixed |-> prefixed,
             instr |-> instruction,
             pc0 |-> cpu.pc, sp0 |-> cpu.sp, regs0 |-> cpu.registers,
             ime0 |-> cpu.interrupt_enabled, halted0 |-> cpu.is_halted,
             ime_check |-> r.checked.cpu.interrupt_enabled,
             if_check |-> Interrupts_to_byte(r.checked.bus.interrupt_flags),
             ie_check |-> Interrupts_to_byte(r.checked.bus.interrupts_enabled),
             pc_check |-> r.checked.cpu.pc, sp_check |-> r.checked.cpu.sp,
             vectors |-> r.m.vectors, cycles |-> r.cycles,
             instr_cycles |-> instr_cycles, ticked |-> r.m.ticked]

\* CPU::step from the result x of execute on
Executed(instruction_byte, prefixed, instruction, x) ==
  IF x.m.panic THEN Panic("bus access")
  ELSE Complete(instruction_byte, prefixed, instruction, x.cycles, after_execute(x))

\* CPU::step from the decoded instruction on; an overflowing addition panics
\* in a build with overflow checks and wraps in a build without them
Decoded(m, instruction_byte, prefixed, instruction) ==
  IF instruction = None THEN Panic("unknown instruction")
  ELSE /\ Modelled(instruction)
       /\ \/ /\ overflows(m, instruction)
             /\ Panic("arithmetic overflow")
          \/ Executed(instruction_byte, prefixed, instruction, execute(m, instruction))

\* CPU::step from the fetched instruction byte on
Fetched(m, instruction_byte, prefixed) ==
  Decoded(m, instruction_byte, prefixed, from_byte(instruction_byte, prefixed))

\* CPU::step
Step ==
  /\ fatal = "none"
  /\ nsteps < MaxSteps
  /\ nsteps' = nsteps + 1
  /\ prev' = obs
  /\ probe' = probe
  /\ IF \/ read_panics(cpu.pc)
        \/ read_byte(bus, cpu.pc) = \hCB /\ next_byte_panics(Machine(cpu, bus))
       THEN Panic("bus access")
       ELSE Fetched(Machine(cpu, bus),
                    IF read_byte(bus, cpu.pc) = \hCB
                      THEN read_next_byte(Machine(cpu, bus))
                      ELSE read_byte(bus, cpu.pc),
                    read_byte(bus, cpu.pc) = \hCB)

---------------------------------------------------------------------------
(* Cartridge images and harness settings the CPU is started with.  As in   *)
(* the tests of cpu/mod.rs, the cartridge is zero-filled (NOP) apart from  *)
(* the program, and the public fields sp and registers are set before the  *)
(* first step().                                                           *)

\* the finite map of the non-zero bytes of a byte sequence placed at address at
Place(bytes, at) ==
  [a \in {at + k - 1 : k \in {j \in 1..Len(bytes) : bytes[j] # ROM_FILL}}
     |-> bytes[a - at + 1]]

Nops(n) == [k \in 1..n |-> \h00]

\* LD A,value ; LDH (0xFF00+register),A
IoWrite(register, value) == <<\h3E, value, \hE0, register>>

\* RETI at each of the five interrupt vectors
Handlers ==
  [a \in {InterruptLocation.VBlank, InterruptLocation.LCD, InterruptLocation.Timer,
          InterruptLocation.Serial, InterruptLocation.Joypad} |-> \hD9]

\* first ; IE := ie ; two I/O writes ; A := ifv ; gap NOPs ; IF := A ; last
InterruptProgram(first, ie, w1, w2, ifv, gap, last) ==
  Place(<<first>> \o IoWrite(\hFF, ie) \o IoWrite(w1[1], w1[2])
          \o IoWrite(w2[1], w2[2]) \o <<\h3E, ifv>> \o Nops(gap)
          \o <<\hE0, \h0F>> \o <<last>>, 0)
    @@ Handlers

FirstOps == {\h00, \hF3}                 \* NOP, DI
LastOps == {\h00, \hFB, \h76}            \* NOP, EI, the opcode of HALT
EnableValues == {\h00, \h04, \h06, \h08, \h1F}
FlagValues == {\h00, \h04, \h08, \h10}
\* STAT with no enable or the OAM enable; the timer counter about to overflow
FirstWrites == {<<\h41, \h00>>, <<\h41, \h20>>, <<\h05, \hFF>>}
\* LCD off or on; the timer running at 64 cycles per tick
SecondWrites == {<<\h40, \h00>>, <<\h40, \h80>>, <<\h07, \h06>>}
\* no wait, or the wait after which the I/O write that follows the gap is
\* the instruction during which the pipeline leaves its first H-blank
Gaps == {0, 42}

InterruptScenarios ==
  {[rom |-> InterruptProgram(first, ie, w1, w2, ifv, gap, last),
    sp |-> \hDFF0, registers |-> Registers_new] :
     first \in FirstOps, ie \in EnableValues, w1 \in FirstWrites,
     w2 \in SecondWrites, ifv \in FlagValues, gap \in Gaps, last \in LastOps}

\* PUSH rr ; POP rr for the four stack targets
StackPrograms ==
  [AF |-> <<\hF5, \hF1>>, BC |-> <<\hC5, \hC1>>,
   DE |-> <<\hD5, \hD1>>, HL |-> <<\hE5, \hE1>>]

\* stack pointers in every region of the address map and at its two ends
StackPointers ==
  {\h0000, \h0001, \h0002, \h0003, \h0010, \h4001, \h8002, \h9802, \hA000, \hC000,
   \hC002, \hD000, \hE000, \hE002, \hFE00, \hFE02, \hFEA0, \hFEA2, \hFF00,
   \hFF06, \hFF07, \hFF42, \hFF44, \hFF80, \hFF82, \hFFFE, \hFFFF}

StackValues == {\h0000, \h1234, \h80F0, \hC1D1, \hFFFF}

StackScenarios ==
  {[rom |-> Place(StackPrograms[t], 0), sp |-> s,
    registers |-> SetPair(Registers_new, t, v)] :
     t \in {"AF", "BC", "DE", "HL"}, s \in StackPointers, v \in StackValues}

\* IE := 0x18, the opcode of JR ; JP 0xFFFF: the next opcode is fetched from
\* IE and its operand from beyond the end of the address space
EdgePrograms == {IoWrite(\hFF, \h18) \o <<\hC3, \hFF, \hFF>>}

EdgeScenarios ==
  {[rom |-> Place(p, 0), sp |-> \hDFF0, registers |-> Registers_new] :
     p \in EdgePrograms}

\* PUSH BC ; POP AF: AF is loaded with two bytes that never were an AF
PopAfScenarios ==
  {[rom |-> Place(<<\hC5, \hF1>>, 0), sp |-> \hD000,
    registers |-> SetPair(Registers_new, "BC", v)] : v \in StackValues}

\* JP at ; the program at at
Entered(program, at) ==
  Place(<<\hC3, at % 256, at \div 256>>, 0) @@ Place(program, at)

\* CALL 0x1234 and CALL Z,0x1234 ; the eight RST
CallPrograms == {<<\hCD, \h34, \h12>>, <<\hCC, \h34, \h12>>}
RestartPrograms ==
  {<<opcode>> : opcode \in {\hC7, \hCF, \hD7, \hDF, \hE7, \hEF, \hF7, \hFF}}
\* JR and JR Z with offsets 0, 9, 127, -128, -127, -6 and -1
RelativeOffsets == {\h00, \h09, \h7F, \h80, \h81, \hFA, \hFF}
RelativePrograms == {<<opcode, e>> : opcode \in {\h18, \h28}, e \in RelativeOffsets}
\* where the instruction is placed: the address of the test restart, the
\* end of the fixed bank and the end of the cartridge
ControlAddresses == {\h0064, \h3FFE, \h7FFD}
\* the stack of the test restart, a stack in work RAM, one that runs into
\* the instruction's own operand when placed at 0x0064, one in the timer
\* registers and one that wraps
ControlPointers == {\h0010, \hD000, \h0067, \hFF06, \h0000}
\* AF with Z clear and with Z set
ControlFlags == {\h0000, \h0080}

ControlScenarios ==
  {[rom |-> Entered(program, at), sp |-> s,
    registers |-> SetPair(Registers_new, "AF", af)] :
     program \in CallPrograms \cup RestartPrograms, at \in ControlAddresses,
     s \in ControlPointers, af \in ControlFlags}
  \cup
  {[rom |-> Entered(program, at), sp |-> \hD000,
    registers |-> SetPair(Registers_new, "AF", af)] :
     program \in RelativePrograms, at \in ControlAddresses, af \in ControlFlags}

\* JR e written to the last two bytes of high RAM ; JP 0xFFFD: the
\* instruction after the JR lies beyond the end of the address space
WrapScenarios ==
  {[rom |-> Place(IoWrite(\hFD, \h18) \o IoWrite(\hFE, e) \o <<\hC3, \hFD, \hFF>>, 0),
    sp |-> \hD000, registers |-> Registers_new] : e \in RelativeOffsets}

\* the timer started (TAC := 5) ; one of the opcodes without an instruction
UndefinedOpcodes == {\hD3, \hDB, \hDD, \hE3, \hE4, \hEB, \hEC, \hED, \hF4, \hFC, \hFD}
UndefinedScenarios ==
  {[rom |-> Place(IoWrite(\h07, \h05) \o <<opcode>>, 0), sp |-> \hD000,
    registers |-> SetPair(Registers_new, "BC", \h1234)] : opcode \in UndefinedOpcodes}

Scenarios ==
  InterruptScenarios \cup StackScenarios \cup EdgeScenarios
    \cup PopAfScenarios \cup ControlScenarios \cup WrapScenarios
    \cup UndefinedScenarios

InitCpu ==
  /\ \E s \in Scenarios :
       /\ cpu = [CPU_new EXCEPT !.sp = s.sp, !.registers = s.registers]
       /\ bus = MemoryBus_new(None, s.rom)
  /\ fatal = "none"
  /\ nsteps = 0
  /\ obs = NoObs
  /\ prev = NoObs
  /\ probe = NoProbe

NextCpu == Step

SpecCpu == InitCpu /\ [][NextCpu]_vars

---------------------------------------------------------------------------
(* The bus driven directly through its public operations *)

\* the longest run of bus operations explored
MaxBusOps == 2

BusAddresses ==
  {\hC000, \hC005, \hDDFF, \hDE00, \hDFFF, \hE000, \hE005, \hFDFF, \hFE00}
BusBytes == {\h00, 100, \hFF}
BusCycles == {24}

BusWrite ==
  /\ fatal = "none"
  /\ nsteps < MaxBusOps
  /\ \E address \in BusAddresses, byte \in BusBytes :
       /\ ~write_panics(address)
       /\ bus' = write_byte(bus, address, byte)
       /\ probe' = [op |-> "write_byte", address |-> address, byte |-> byte]
  /\ nsteps' = nsteps + 1
  /\ UNCHANGED <<cpu, fatal, obs, prev>>

BusStep ==
  /\ fatal = "none"
  /\ nsteps < MaxBusOps
  /\ \E cycles \in BusCycles :
       /\ bus' = MemoryBus_step(bus, cycles)
       /\ probe' = [op |-> "step", address |-> 0, byte |-> cycles]
  /\ nsteps' = nsteps + 1
  /\ UNCHANGED <<cpu, fatal, obs, prev>>

InitBus ==
  /\ cpu = CPU_new
  /\ bus = MemoryBus_new(None, <<>>)
  /\ fatal = "none"
  /\ nsteps = 0
  /\ obs = NoObs
  /\ prev = NoObs
  /\ probe = NoProbe

NextBus == BusWrite \/ BusStep

SpecBus == InitBus /\ [][NextBus]_vars

---------------------------------------------------------------------------
(* The pure functions applied to every input *)

Idle ==
  /\ cpu = CPU_new
  /\ bus = MemoryBus_new(None, <<>>)
  /\ fatal = "none"
  /\ nsteps = 0
  /\ obs = NoObs
  /\ prev = NoObs

\* Instruction::from_byte
InitDecode ==
  /\ Idle
  /\ \E byte \in Byte, prefixed \in BOOLEAN :
       probe = [op |-> "input", byte |-> byte, prefixed |-> prefixed,
                instruction |-> None]

Decode ==
  /\ probe.op = "input"
  /\ probe' = [probe EXCEPT !.op = "from_byte",
                            !.instruction = from_byte(probe.byte, probe.prefixed)]
  /\ UNCHANGED <<cpu, bus, fatal, nsteps, obs, prev>>

NextDecode == Decode

SpecDecode == InitDecode /\ [][NextDecode]_vars

\* FlagsRegister::from(byte), then u8::from(flags)
InitFlags ==
  /\ Idle
  /\ \E byte \in Byte :
       probe = [op |-> "input", byte |-> byte, flags |-> FlagsRegister_new, packed |-> 0]

Unpack ==
  /\ probe.op = "input"
  /\ probe' = [probe EXCEPT !.op = "unpacked",
                            !.flags = FlagsRegister_from_u8(probe.byte)]
  /\ UNCHANGED <<cpu, bus, fatal, nsteps, obs, prev>>

Pack ==
  /\ probe.op = "unpacked"
  /\ probe' = [probe EXCEPT !.op = "packed", !.packed = u8_from_FlagsRegister(probe.flags)]
  /\ UNCHANGED <<cpu, bus, fatal, nsteps, obs, prev>>

NextFlags == Unpack \/ Pack

SpecFlags == InitFlags /\ [][NextFlags]_vars

\* Registers::set_af .. set_hl on a fresh register file
InitRegs ==
  /\ Idle
  /\ \E value \in Word, pair \in {"AF", "BC", "DE", "HL"} :
       probe = [op |-> "input", pair |-> pair, value |-> value]

SetRegisterPair ==
  /\ probe.op = "input"
  /\ cpu' = [cpu EXCEPT !.registers = SetPair(@, probe.pair, probe.value)]
  /\ probe' = [probe EXCEPT !.op = "set"]
  /\ UNCHANGED <<bus, fatal, nsteps, obs, prev>>

NextRegs == SetRegisterPair

SpecRegs == InitRegs /\ [][NextRegs]_vars


---------------------------------------------------------------------------
(* The memory map read and written through the bus, with and without a    *)
(* boot image                                                              *)

\* the longest run of memory operations explored
MaxMemOps == 3

\* a boot image, as main reads it from a file, and a cartridge whose first
\* bytes differ from it
BootImages == {[i \in 1..256 |-> (i * 7) % 256]}
MemCartridge == Place(<<\h31, \hFE, \hFF>>, 0) @@ Place(<<\hC3, \h50, \h01>>, \h0100)

\* the overlaid range, both cartridge banks, work RAM, the unusable range,
\* the divider, the timer control and the overlay switch
MemAddresses ==
  {\h0000, \h0100, \h4000, \hC000, \hFEA0, \hFEFF, \hFF04, \hFF07, \hFF50}
\* 0x5D written to the timer control starts the timer
MemBytes == {\h00, \h5D}
\* the 10 cycles of the test divider_zeroed and more than the divider holds
MemCycles == {10, 300}

MemWrite ==
  /\ fatal = "none"
  /\ nsteps < MaxMemOps
  /\ \E address \in MemAddresses, byte \in MemBytes :
       /\ IF write_panics(address)
            THEN fatal' = "bus access" /\ bus' = bus
            ELSE fatal' = fatal /\ bus' = write_byte(bus, address, byte)
       /\ probe' = [op |-> "write_byte", address |-> address, byte |-> byte,
                    overlaid |-> bus.boot_rom # None]
  /\ nsteps' = nsteps + 1
  /\ UNCHANGED <<cpu, obs, prev>>

MemRead ==
  /\ fatal = "none"
  /\ nsteps < MaxMemOps
  /\ \E address \in MemAddresses :
       /\ fatal' = IF read_panics(address) THEN "bus access" ELSE fatal
       /\ probe' = [op |-> "read_byte", address |-> address,
                    byte |-> IF read_panics(address) THEN 0
                             ELSE read_byte(bus, address),
                    overlaid |-> bus.boot_rom # None]
  /\ nsteps' = nsteps + 1
  /\ UNCHANGED <<cpu, bus, obs, prev>>

MemStep ==
  /\ fatal = "none"
  /\ nsteps < MaxMemOps
  /\ \E cycles \in MemCycles :
       /\ bus' = MemoryBus_step(bus, cycles)
       /\ probe' = [op |-> "step", address |-> 0, byte |-> cycles,
                    overlaid |-> bus.boot_rom # None]
  /\ nsteps' = nsteps + 1
  /\ UNCHANGED <<cpu, fatal, obs, prev>>

InitMem ==
  /\ cpu = CPU_new
  /\ \E boot_rom \in BootImages \cup {None} : bus = MemoryBus_new(boot_rom, MemCartridge)
  /\ fatal = "none"
  /\ nsteps = 0
  /\ obs = NoObs
  /\ prev = NoObs
  /\ probe = NoProbe

NextMem == MemWrite \/ MemRead \/ MemStep

SpecMem == InitMem /\ [][NextMem]_vars

---------------------------------------------------------------------------
(* The timer stepped through MemoryBus::step *)

\* the longest run of timer steps explored
MaxTimerOps == 3

\* a cycle, the shortest period, the longest instruction and the longest period
TimerCycles == {1, 16, 24, 1024}

TimerStep ==
  /\ fatal = "none"
  /\ nsteps < MaxTimerOps
  /\ \E cycles \in TimerCycles :
       /\ bus' = MemoryBus_step(bus, cycles)
       /\ probe' = [op |-> "step", cycles |-> cycles]
  /\ nsteps' = nsteps + 1
  /\ UNCHANGED <<cpu, fatal, obs, prev>>

\* the timer as the registers TAC, TIMA and TMA were written
InitTimer ==
  /\ cpu = CPU_new
  /\ \E frequency \in {"F4096", "F16384", "F65536", "F262144"},
        active \in BOOLEAN, value \in {0, 254, 255}, modulo \in {0, 128} :
       bus = [MemoryBus_new(None, <<>>) EXCEPT
                !.timer = [Timer_new EXCEPT !.frequency = frequency, !.active = active,
                                            !.value = value, !.modulo = modulo]]
  /\ fatal = "none"
  /\ nsteps = 0
  /\ obs = NoObs
  /\ prev = NoObs
  /\ probe = NoProbe

NextTimer == TimerStep

SpecTimer == InitTimer /\ [][NextTimer]_vars

---------------------------------------------------------------------------
(* The pixel pipeline stepped for one frame from the start of line 0 *)

\* cycles of the instructions between two GPU::step calls
LcdCycles == {12, 24}

\* GPU::step; probe counts the cycles stepped, the render_scanline calls per
\* line and the returns of LY to 0
LcdStep ==
  /\ probe.op = "lcd"
  /\ \E cycles \in LcdCycles :
       /\ probe.elapsed + cycles <= ONE_FRAME_IN_CYCLES
       /\ bus' = [bus EXCEPT !.gpu = GPU_step(bus.gpu, cycles)]
       /\ probe' = [op |-> "lcd",
                    elapsed |-> probe.elapsed + cycles,
                    rendered |->
                      IF renders_scanline(bus.gpu, cycles)
                        THEN Store(probe.rendered, 0, bus.gpu.lcd_y_coordinate,
                                   Load(probe.rendered, 0, bus.gpu.lcd_y_coordinate) + 1)
                        ELSE probe.rendered,
                    resets |->
                      IF bus.gpu.lcd_y_coordinate # 0
                           /\ GPU_step(bus.gpu, cycles).lcd_y_coordinate = 0
                        THEN probe.resets + 1 ELSE probe.resets]
  /\ UNCHANGED <<cpu, fatal, nsteps, obs, prev>>

\* the display on, at the boundary between V-blank and the OAM scan of line 0
InitLcd ==
  /\ cpu = CPU_new
  /\ bus = [MemoryBus_new(None, <<>>) EXCEPT
              !.gpu = [GPU_new EXCEPT !.lcd_display_enabled = TRUE,
                                      !.lcd_mode = "OAMAccess"]]
  /\ fatal = "none"
  /\ nsteps = 0
  /\ obs = NoObs
  /\ prev = NoObs
  /\ probe = [op |-> "lcd", elapsed |-> 0, rendered |-> <<>>, resets |-> 0]

NextLcd == LcdStep

SpecLcd == InitLcd /\ [][NextLcd]_vars
---------------------------------------------------------------------------
(* The arithmetic arms of CPU::execute applied to every accumulator,       *)
(* operand and flag input                                                  *)

AluOpcodes == {\h80, \h88, \h90, \h98, \hB8}
AddHlOpcodes == {\h09, \h19, \h29, \h39}
DaaOpcodes == {\h27}

\* the 16-bit operands of ADD HL,rr: both sides of the carries out of bits
\* 10, 11 and 15, and the operands of the tests addhl_*
AluWords ==
  {\h0000, \h0001, \h0400, \h07FF, \h0800, \h0FFF, \h1000, \h7FFF, \h8000,
   \hF800, \hFFFF, 2023, 101, 65500, 100}

FamilyOpcodes(family) ==
  CASE family = "arithmetic" -> AluOpcodes
    [] family = "addhl" -> AddHlOpcodes
    [] family = "daa" -> DaaOpcodes

AluCpu(r, sp) == [CPU_new EXCEPT !.registers = r, !.sp = sp]

AluInput(family) == [op |-> "input", family |-> family, instruction |-> None, cycles |-> 0]

AluIdle ==
  /\ bus = MemoryBus_new(None, <<>>)
  /\ fatal = "none"
  /\ nsteps = 0
  /\ obs = NoObs
  /\ prev = NoObs

\* ADD, ADC, SUB, SBC and CP with B: every A, every B, both carries
InitAlu ==
  /\ AluIdle
  /\ \E a \in Byte, value \in Byte, carry \in BOOLEAN :
       cpu = AluCpu([Registers_new EXCEPT !.a = a, !.b = value, !.f.carry = carry], 0)
  /\ probe = AluInput("arithmetic")

\* DAA: every A under every N, H and C
InitDaa ==
  /\ AluIdle
  /\ \E a \in Byte, f \in [zero : {FALSE}, subtract : BOOLEAN,
                           half_carry : BOOLEAN, carry : BOOLEAN] :
       cpu = AluCpu([Registers_new EXCEPT !.a = a, !.f = f], 0)
  /\ probe = AluInput("daa")

\* ADD HL,rr: rr is in BC, DE and SP; N starts set
InitAddHl ==
  /\ AluIdle
  /\ \E hl \in AluWords, rr \in AluWords, zero \in BOOLEAN :
       cpu = AluCpu(set_de(set_bc(set_hl([Registers_new EXCEPT !.f.zero = zero,
                                                               !.f.subtract = TRUE],
                                         hl), rr), rr), rr)
  /\ probe = AluInput("addhl")

\* CPU::execute on the decoded instruction; the registers before it are
\* kept in prev
AluExecute ==
  /\ probe.op = "input"
  /\ \E opcode \in FamilyOpcodes(probe.family) :
       LET i == from_byte(opcode, FALSE)
           d == execute_arithmetic(Machine(cpu, bus), i)
       IN /\ cpu' = [d.m.cpu EXCEPT !.pc = d.next_pc]
          /\ probe' = [probe EXCEPT !.op = "executed", !.instruction = i,
                                    !.cycles = d.cycles]
  /\ prev' = [NoObs EXCEPT !.regs0 = cpu.registers, !.sp0 = cpu.sp, !.pc0 = cpu.pc]
  /\ UNCHANGED <<bus, fatal, nsteps, obs>>

NextAlu == AluExecute

SpecAlu == InitAlu /\ [][NextAlu]_vars

SpecDaa == InitDaa /\ [][NextAlu]_vars

SpecAddHl == InitAddHl /\ [][NextAlu]_vars

---------------------------------------------------------------------------
(* The interrupt registers and the LCD registers read, written and stepped *)
(* through the bus                                                         *)

\* the longest run of bus operations explored
MaxIoOps == 3

\* IF, IE, LCDC and LY
IoAddresses == {\hFF0F, \hFFFF, \hFF40, \hFF44}
\* no bit, every bit, and a byte with bits 0, 2, 3, 4 and 6
IoBytes == {\h00, \hFF, \h5D}
\* the longest instruction, and one H-blank
IoCycles == {24, 200}

IoWriteByte ==
  /\ fatal = "none"
  /\ nsteps < MaxIoOps
  /\ \E address \in IoAddresses, byte \in IoBytes :
       /\ IF write_panics(address)
            THEN fatal' = "bus access" /\ bus' = bus
            ELSE fatal' = fatal /\ bus' = write_byte(bus, address, byte)
       /\ probe' = [op |-> "write_byte", address |-> address, byte |-> byte]
  /\ nsteps' = nsteps + 1
  /\ UNCHANGED <<cpu, obs, prev>>

IoReadByte ==
  /\ fatal = "none"
  /\ nsteps < MaxIoOps
  /\ \E address \in IoAddresses :
       /\ fatal' = IF read_panics(address) THEN "bus access" ELSE fatal
       /\ probe' = [op |-> "read_byte", address |-> address,
                    byte |-> IF read_panics(address) THEN 0
                             ELSE read_byte(bus, address)]
  /\ nsteps' = nsteps + 1
  /\ UNCHANGED <<cpu, bus, obs, prev>>

IoStep ==
  /\ fatal = "none"
  /\ nsteps < MaxIoOps
  /\ \E cycles \in IoCycles :
       /\ bus' = MemoryBus_step(bus, cycles)
       /\ probe' = [op |-> "step", address |-> 0, byte |-> cycles]
  /\ nsteps' = nsteps + 1
  /\ UNCHANGED <<cpu, fatal, obs, prev>>

InitIo ==
  /\ Idle
  /\ probe = NoProbe

NextIo == IoWriteByte \/ IoReadByte \/ IoStep

SpecIo == InitIo /\ [][NextIo]_vars

---------------------------------------------------------------------------
(* Every byte written to each palette register *)

PaletteRegisters == {\hFF47, \hFF48, \hFF49}

PaletteWrite ==
  /\ probe.op = "none"
  /\ \E address \in PaletteRegisters, byte \in Byte :
       /\ bus' = write_byte(bus, address, byte)
       /\ probe' = [op |-> "write_byte", address |-> address, byte |-> byte]
  /\ UNCHANGED <<cpu, fatal, nsteps, obs, prev>>

NextPalette == PaletteWrite

SpecPalette == InitIo /\ [][NextPalette]_vars

---------------------------------------------------------------------------
(* The LCD stepped through a frame by the bus, switched off and on and     *)
(* written to on the way                                                   *)

\* the most register writes, and the most steps taken with the LCD off
MaxLcdWrites == 3
MaxIdleSteps == 1

\* LCDC with the display off and on, and LY; a write to LCDC is one that
\* switches the display
LyWrites == {<<\hFF40, \h11>>, <<\hFF40, \h91>>, <<\hFF44, \h00>>}

LyStep ==
  /\ fatal = "none"
  /\ bus.gpu.lcd_display_enabled \/ probe.idle < MaxIdleSteps
  /\ \E cycles \in LcdCycles :
       /\ probe.elapsed + cycles <= ONE_FRAME_IN_CYCLES
       /\ bus' = MemoryBus_step(bus, cycles)
       /\ probe' = [probe EXCEPT !.op = "step", !.cycles = cycles,
                                 !.elapsed = @ + cycles,
                                 !.idle = IF bus.gpu.lcd_display_enabled THEN @ ELSE @ + 1]
  /\ UNCHANGED <<cpu, fatal, nsteps, obs, prev>>

LyWrite ==
  /\ fatal = "none"
  /\ probe.writes < MaxLcdWrites
  /\ \E w \in LyWrites :
       /\ w[1] = \hFF40 => (Shr(w[2], 7) = 1) # bus.gpu.lcd_display_enabled
       /\ IF write_panics(w[1])
            THEN fatal' = "bus access" /\ bus' = bus
            ELSE fatal' = fatal /\ bus' = write_byte(bus, w[1], w[2])
       /\ probe' = [probe EXCEPT !.op = "write_byte", !.cycles = 0, !.writes = @ + 1]
  /\ UNCHANGED <<cpu, nsteps, obs, prev>>

\* the bus as MemoryBus::new leaves it: the display off, H-blank, line 0
InitLy ==
  /\ Idle
  /\ probe = [op |-> "new", cycles |-> 0, elapsed |-> 0, writes |-> 0, idle |-> 0]

NextLy == LyStep \/ LyWrite

SpecLy == InitLy /\ [][NextLy]_vars

---------------------------------------------------------------------------
(* Writes to video RAM: both bytes of the first and of the last tile row,
   a row in the middle of a tile, and the tile maps above the tile data *)
MaxVramOps == 2

VramAddresses == {\h8000, \h8001, \h800E, \h800F, \h97FE, \h97FF, \h9800, \h9FFF}

VramBytes == {\h00, \hFF, \hA5, \h3C}

VramWrite ==
  /\ fatal = "none"
  /\ nsteps < MaxVramOps
  /\ \E address \in VramAddresses, byte \in VramBytes :
       /\ bus' = write_byte(bus, address, byte)
       /\ probe' = [op |-> "write_byte", address |-> address, byte |-> byte]
  /\ nsteps' = nsteps + 1
  /\ UNCHANGED <<cpu, fatal, obs, prev>>

InitVram ==
  /\ Idle
  /\ probe = NoProbe

NextVram == VramWrite

SpecVram == InitVram /\ [][NextVram]_vars

---------------------------------------------------------------------------
(* Writes to object attribute memory: the four bytes of the first object,
   bytes of the second and of the last one *)
MaxOamOps == 2

OamAddresses ==
  {\hFE00, \hFE01, \hFE02, \hFE03, \hFE04, \hFE07, \hFE9C, \hFE9E, \hFE9F}

OamBytes == {\h00, \h10, \h50, \hFF}

OamWrite ==
  /\ fatal = "none"
  /\ nsteps < MaxOamOps
  /\ \E address \in OamAddresses, byte \in OamBytes :
       /\ bus' = write_byte(bus, address, byte)
       /\ probe' = [op |-> "write_byte", address |-> address, byte |-> byte]
  /\ nsteps' = nsteps + 1
  /\ UNCHANGED <<cpu, fatal, obs, prev>>

InitOam ==
  /\ Idle
  /\ probe = NoProbe

NextOam == OamWrite

SpecOam == InitOam /\ [][NextOam]_vars

---------------------------------------------------------------------------
(* ADD A,B followed by DAA on every pair of packed-BCD bytes *)

\* the bytes whose nibbles are both decimal digits
BcdBytes == {b \in Byte : b % 16 <= 9 /\ b \div 16 <= 9}

InitBcd ==
  /\ AluIdle
  /\ \E x \in BcdBytes, y \in BcdBytes, carry \in BOOLEAN, subtract \in BOOLEAN :
       cpu = AluCpu([Registers_new EXCEPT !.a = x, !.b = y, !.f.carry = carry,
                                          !.f.subtract = subtract], 0)
  /\ probe = AluInput("bcd")

\* CPU::execute on ADD A,B; the registers before it are kept in prev
BcdAdd ==
  /\ probe.op = "input"
  /\ probe.family = "bcd"
  /\ LET i == from_byte(\h80, FALSE)
         d == execute_arithmetic(Machine(cpu, bus), i)
     IN /\ cpu' = [d.m.cpu EXCEPT !.pc = d.next_pc]
        /\ probe' = [probe EXCEPT !.op = "added", !.instruction = i,
                                  !.cycles = d.cycles]
  /\ prev' = [NoObs EXCEPT !.regs0 = cpu.registers, !.sp0 = cpu.sp, !.pc0 = cpu.pc]
  /\ UNCHANGED <<bus, fatal, nsteps, obs>>

\* CPU::execute on the DAA that follows
BcdAdjust ==
  /\ probe.op = "added"
  /\ LET i == from_byte(\h27, FALSE)
         d == execute_arithmetic(Machine(cpu, bus), i)
     IN /\ cpu' = [d.m.cpu EXCEPT !.pc = d.next_pc]
        /\ probe' = [probe EXCEPT !.op = "adjusted", !.instruction = i,
                                  !.cycles = probe.cycles + d.cycles]
  /\ UNCHANGED <<bus, fatal, nsteps, obs, prev>>

NextBcd == BcdAdd \/ BcdAdjust

SpecBcd == InitBcd /\ [][NextBcd]_vars

---------------------------------------------------------------------------
(* The CB-prefixed rotates and shifts applied to every operand value, in   *)
(* every register and at (HL), under both carries                          *)

PrefixTargets == {"A", "B", "C", "D", "E", "H", "L", "HLI"}

\* CB 00..3F without SWAP (CB 30..37)
ShiftOpcodes == (0..63) \ (48..55)

\* where (HL) points for the HLI target
ShiftAddress == \hC000

InitShift ==
  /\ fatal = "none"
  /\ nsteps = 0
  /\ obs = NoObs
  /\ prev = NoObs
  /\ \E value \in Byte, carry \in BOOLEAN, target \in PrefixTargets :
       LET f == [zero |-> TRUE, subtract |-> TRUE, half_carry |-> TRUE, carry |-> carry]
           r == set_hl([Registers_new EXCEPT !.f = f], ShiftAddress)
       IN /\ cpu = AluCpu(IF target = "HLI" THEN r ELSE SetReg8(r, target, value), 0)
          /\ bus = IF target = "HLI"
                     THEN write_byte(MemoryBus_new(None, <<>>), ShiftAddress, value)
                     ELSE MemoryBus_new(None, <<>>)
          /\ probe = [op |-> "input", family |-> "shift", target |-> target,
                      value |-> value, instruction |-> None, cycles |-> 0]

\* CPU::execute on the decoded instruction; the registers before it are
\* kept in prev
ShiftExecute ==
  /\ probe.op = "input"
  /\ probe.family = "shift"
  /\ \E opcode \in ShiftOpcodes :
       LET i == from_byte(opcode, TRUE)
           d == execute_rotate(Machine(cpu, bus), i)
       IN /\ i[2] = probe.target
          /\ cpu' = [d.m.cpu EXCEPT !.pc = d.next_pc]
          /\ bus' = d.m.bus
          /\ probe' = [probe EXCEPT !.op = "executed", !.instruction = i,
                                    !.cycles = d.cycles]
  /\ prev' = [NoObs EXCEPT !.regs0 = cpu.registers, !.sp0 = cpu.sp, !.pc0 = cpu.pc]
  /\ UNCHANGED <<fatal, nsteps, obs>>

NextShift == ShiftExecute

SpecShift == InitShift /\ [][NextShift]_vars

---------------------------------------------------------------------------
(* One scanline of the background rendered under every combination of a    *)
(* few scroll positions, lines and both tile maps                          *)

\* 0, a scroll inside a tile, the last position whose 160 pixels stay inside
\* the 32 tiles of a row, the first that does not, and the largest
ScrollXs == {0, 5, 96, 97, 255}

ScrollYs == {0, 3, 200, 255}

\* the first line, a line inside a tile row, and the last visible line
ScrollLines == {0, 7, 100, 143}

\* LCDC: display, tile data at 0x8000 and background on; bit 3 selects the
\* tile map at 0x9C00
ScrollControls == {\h91, \h99}

\* the writes that set a scene up: tile 1 has a first row of palette index 1
\* and a fourth row of palette index 3; the first and the last cell of tile
\* rows 0 and 31 of both maps show tile 1.  Every other cell holds 0xFF and
\* shows the empty tile 255
ScrollScene ==
  <<<<\h8010, \hFF>>, <<\h8011, \h00>>, <<\h8016, \hFF>>, <<\h8017, \hFF>>,
    <<\h9800, \h01>>, <<\h981F, \h01>>, <<\h9BE0, \h01>>, <<\h9BFF, \h01>>,
    <<\h9C00, \h01>>, <<\h9C1F, \h01>>, <<\h9FE0, \h01>>, <<\h9FFF, \h01>>>>

\* write_byte applied to each <<address, byte>> of writes in turn
RECURSIVE written(_, _)
written(b, writes) ==
  IF writes = <<>> THEN b
  ELSE written(write_byte(b, Head(writes)[1], Head(writes)[2]), Tail(writes))

\* the pipeline about to leave VRAMAccess on line ly (every line below 144
\* passes through that mode once a frame)
before_render(b, ly) ==
  [b EXCEPT !.gpu.lcd_mode = "VRAMAccess", !.gpu.lcd_y_coordinate = ly,
            !.gpu.cycles = 0]

RenderIdle ==
  /\ cpu = CPU_new
  /\ fatal = "none"
  /\ nsteps = 0
  /\ obs = NoObs
  /\ prev = NoObs
  /\ probe = [op |-> "input"]

InitScroll ==
  /\ RenderIdle
  /\ \E scx \in ScrollXs, scy \in ScrollYs, ly \in ScrollLines, lcdc \in ScrollControls :
       bus = before_render(
               written(MemoryBus_new(None, <<>>),
                       ScrollScene \o <<<<\hFF40, lcdc>>, <<\hFF42, scy>>, <<\hFF43, scx>>>>),
               ly)

\* how the call can end: an index past video_ram panics in every build, an
\* arithmetic overflow only in a build that checks for it
render_outcomes(screen) ==
  IF screen.panics THEN {"index out of bounds"}
  ELSE IF screen.overflows THEN {"none", "overflow"}
  ELSE {"none"}

\* MemoryBus::step with the cycles that end VRAMAccess: GPU::step enters
\* HBlank and calls render_scanline
Render ==
  /\ probe.op = "input"
  /\ renders_scanline(bus.gpu, 172)
  /\ LET b == MemoryBus_step(bus, 172)
         screen == render_scanline(b.gpu)
     IN /\ bus' = b
        /\ fatal' \in render_outcomes(screen)
        /\ probe' = [op |-> "rendered", screen |-> screen,
                     cells |-> [line_x \in 0..(SCREEN_WIDTH - 1) |->
                                  background_cell(b.gpu, line_x)]]
  /\ UNCHANGED <<cpu, nsteps, obs, prev>>

NextScroll == Render

SpecScroll == InitScroll /\ [][NextScroll]_vars

---------------------------------------------------------------------------
(* One scanline with an object on it, over a background that is partly     *)
(* palette index 0 and partly not                                          *)

\* objects on (bit 1) with the background on and off, and 8x16 objects
ObjectControls == {\h93, \h97, \h82}

\* OAM byte 1: x = 0, 4, -4 (over the left edge) and 156 (over the right edge)
ObjectXs == {8, 12, 4, 164}

\* OAM byte 0: y = 0 and y = -3
ObjectYs == {16, 13}

\* OAM byte 3: no attribute, background priority, horizontal flip, and
\* background priority with vertical flip
ObjectAttributes == {\h00, \h80, \h20, \hC0}

ObjectLines == {0, 3}

\* tile 1 (background, shown in the first map cell) has a first row of palette
\* index 1 and a fourth row of index 3; tiles 2 and 3 (objects) have rows that
\* are half index 0: the first, fourth, fifth and eighth rows of tile 2, the
\* first and fourth of tile 3
ObjectScene ==
  <<<<\h8010, \hFF>>, <<\h8011, \h00>>, <<\h8016, \hFF>>, <<\h8017, \hFF>>,
    <<\h9800, \h01>>,
    <<\h8020, \hF0>>, <<\h8021, \h00>>, <<\h8026, \h3C>>, <<\h8027, \h3C>>,
    <<\h8028, \h0F>>, <<\h8029, \h00>>, <<\h802E, \h00>>, <<\h802F, \hF0>>,
    <<\h8030, \hC3>>, <<\h8031, \hC3>>, <<\h8036, \hF0>>, <<\h8037, \h00>>>>

InitObject ==
  /\ RenderIdle
  /\ \E x \in ObjectXs, y \in ObjectYs, attributes \in ObjectAttributes,
        lcdc \in ObjectControls, ly \in ObjectLines :
       bus = before_render(
               written(MemoryBus_new(None, <<>>),
                       ObjectScene \o <<<<\hFF40, lcdc>>, <<\hFE00, y>>, <<\hFE01, x>>,
                                        <<\hFE02, \h02>>, <<\hFE03, attributes>>>>),
               ly)

NextObject == Render

SpecObject == InitObject /\ [][NextObject]_vars

---------------------------------------------------------------------------
(* Properties *)

Bit(x, i) == (x \div (2 ^ i)) % 2
LowNibbleCleared(x) == (x \div 16) * 16
EnabledPending(ie, if) == {i \in 0..4 : Bit(ie, i) = 1 /\ Bit(if, i) = 1}
LowestOf(S) == CHOOSE i \in S : \A j \in S : i <= j
VectorOf(i) == \h40 + 8 * i
Stepped == obs.op = "step"

(* C1: whenever IME is set and IE & IF is non-zero when step() looks for   *)
(* interrupts, exactly the lowest-numbered pending source i of the five is *)
(* serviced: IF[i] and IME are cleared, PC is pushed high byte first, PC   *)
(* becomes the vector 0x40 + 8i and 12 cycles are charged.                 *)
C1_ServicesLowestPending ==
  (Stepped /\ obs.ime_check /\ EnabledPending(obs.ie_check, obs.if_check) # {}) =>
    LET i == LowestOf(EnabledPending(obs.ie_check, obs.if_check)) IN
      /\ obs.vectors = <<VectorOf(i)>>
      /\ cpu.pc = VectorOf(i)
      /\ ~cpu.interrupt_enabled
      /\ cpu.sp = wrapping_sub16(obs.sp_check, 2)
      /\ read_byte(bus, wrapping_add16(cpu.sp, 1)) = obs.pc_check \div 256
      /\ read_byte(bus, cpu.sp) = obs.pc_check % 256
      /\ obs.cycles = obs.instr_cycles + 12

C3_EIDeferred ==
  (Stepped /\ obs.instr = <<"EI">> /\ ~obs.ime0) => obs.vectors = <<>>

(* C4: once HALT (opcode 0x76) has executed with no interrupt flag set,    *)
(* the CPU is halted and the step leaves PC where it was while the         *)
(* divider, the timer and the pixel pipeline advance by the 4 cycles of    *)
(* the instruction; a halted CPU is never left with an IF bit set; and a   *)
(* vector is entered only when IME was set with an IE/IF pair pending.     *)
C4_HaltHoldsPC ==
  /\ (Stepped /\ ~obs.prefixed /\ obs.opcode = \h76 /\ obs.if_check = 0) =>
       /\ cpu.is_halted
       /\ cpu.pc = obs.pc0
       /\ obs.ticked = 4
  /\ cpu.is_halted => Interrupts_to_byte(bus.interrupt_flags) = 0
  /\ (Stepped /\ obs.vectors # <<>>) =>
       (obs.ime_check /\ EnabledPending(obs.ie_check, obs.if_check) # {})

(* C5: the unprefixed decoder returns None exactly for the eleven illegal  *)
(* opcodes and the 0xCB prefix; 0x31 is LD SP,d16 and 0x10 is STOP.        *)
IllegalOpcodes ==
  {\hD3, \hDB, \hDD, \hE3, \hE4, \hEB, \hEC, \hED, \hF4, \hFC, \hFD}

C5_UnprefixedDecoder ==
  (probe.op = "from_byte" /\ ~probe.prefixed) =>
    /\ probe.instruction = None <=> probe.byte \in IllegalOpcodes \cup {\hCB}
    /\ probe.byte = \h31 => probe.instruction = <<"LD", "Word", "SP">>
    /\ probe.byte = \h10 => probe.instruction = <<"STOP">>

(* C6: the prefixed decoder returns an instruction for every byte.         *)
C6_PrefixedTotal ==
  (probe.op = "from_byte" /\ probe.prefixed) => probe.instruction # None

C6_Witness ==
  /\ probe.op = "from_byte" /\ probe.prefixed /\ probe.byte = \hFF
  /\ probe.instruction = <<"SET", "A", "B7">>

\* PUSH rr was followed by the matching POP rr with no interrupt in between
PushedThenPopped ==
  /\ Stepped /\ prev.op = "step"
  /\ prev.instr # None /\ prev.instr[1] = "PUSH"
  /\ obs.instr = <<"POP", prev.instr[2]>>
  /\ prev.vectors = <<>> /\ obs.vectors = <<>>

\* an address where write_byte stores the byte and read_byte returns it
PlainStorage(address) ==
  \/ address <= OAM_END /\ (address > BOOT_ROM_END \/ bus.boot_rom = None)
  \/ address >= HRAM_START /\ address <= HRAM_END

C8_EchoAliasing ==
  /\ \A a \in ECHO_RAM_START..ECHO_RAM_END :
       read_byte(bus, a) = read_byte(bus, a - \h2000)
  /\ (probe.op = "write_byte" /\ probe.address >= ECHO_RAM_START
        /\ probe.address <= ECHO_RAM_END) =>
       read_byte(bus, probe.address - \h2000) = probe.byte
  /\ (probe.op = "write_byte" /\ probe.address >= WORKING_RAM_START
        /\ probe.address + \h2000 <= ECHO_RAM_END) =>
       read_byte(bus, probe.address + \h2000) = probe.byte

\* 100 written to 0xE005 is read at 0xC005
C8_Witness ==
  /\ probe.op = "write_byte" /\ probe.address = \hE005 /\ probe.byte = 100
  /\ read_byte(bus, \hC005) = 100
  /\ read_byte(bus, \hE005) = 100

(* C9: unpacking a byte takes Z, N, H, C from bits 7, 6, 5, 4, and packing *)
(* the flags again yields the byte with its low nibble cleared.            *)
C9_FlagsRoundTrip ==
  /\ probe.op \in {"unpacked", "packed"} =>
       /\ probe.flags.zero <=> Bit(probe.byte, 7) = 1
       /\ probe.flags.subtract <=> Bit(probe.byte, 6) = 1
       /\ probe.flags.half_carry <=> Bit(probe.byte, 5) = 1
       /\ probe.flags.carry <=> Bit(probe.byte, 4) = 1
  /\ probe.op = "packed" => probe.packed = LowNibbleCleared(probe.byte)

C9_Witness ==
  probe.op = "packed" /\ probe.byte = \h5F /\ probe.packed = \h50

(* C10: setting a register pair to v and reading it back yields v for BC,  *)
(* DE and HL, the high byte in the first register and the low byte in the  *)
(* second, and v with its low nibble cleared for AF.                       *)
C10_PairRoundTrip ==
  probe.op = "set" =>
    LET r == cpu.registers
        v == probe.value
    IN CASE probe.pair = "BC" ->
              get_bc(r) = v /\ r.b = v \div 256 /\ r.c = v % 256
         [] probe.pair = "DE" ->
              get_de(r) = v /\ r.d = v \div 256 /\ r.e = v % 256
         [] probe.pair = "HL" ->
              get_hl(r) = v /\ r.h = v \div 256 /\ r.l = v % 256
         [] probe.pair = "AF" ->
              get_af(r) = LowNibbleCleared(v) /\ r.a = v \div 256

C10_Witness ==
  /\ probe.op = "set" /\ probe.pair = "AF" /\ probe.value = \hACFF
  /\ get_af(cpu.registers) = \hACF0


(* C11: in every state the low nibble of F reads as 0, get_af() & 0x000F   *)
(* = 0, also after POP AF has loaded stack bytes whose low nibble is set.  *)
C11_FlagLowNibble ==
  BitAnd(get_af(cpu.registers), \h000F) = 0

\* POP AF took 0xC1D1, pushed as BC, from the stack and AF reads 0xC1D0
C11_Witness ==
  /\ Stepped /\ prev.op = "step"
  /\ prev.instr = <<"PUSH", "BC">> /\ obs.instr = <<"POP", "AF">>
  /\ read_byte(bus, \hCFFE) = \hD1 /\ read_byte(bus, \hCFFF) = \hC1
  /\ get_af(cpu.registers) = \hC1D0

\* the step just taken completed and entered no interrupt vector
PlainStep == obs'.op = "step" /\ obs'.vectors = <<>>

\* value lies on the stack of bus b at sp, low byte first
StackedAt(b, sp, value) ==
  /\ read_byte(b, sp) = value % 256
  /\ read_byte(b, wrapping_add16(sp, 1)) = value \div 256

\* the memories of b2 hold what those of b1 hold
SameMemory(b1, b2) ==
  /\ b2.rom_bank = b1.rom_bank
  /\ b2.switchable_rom_bank = b1.switchable_rom_bank
  /\ b2.external_ram = b1.external_ram
  /\ b2.working_ram = b1.working_ram
  /\ b2.high_ram = b1.high_ram
  /\ b2.gpu.video_ram = b1.gpu.video_ram
  /\ b2.gpu.oam = b1.gpu.oam

(* C15: a taken CALL and every RST n push the address of the next          *)
(* instruction (PC+3, PC+1) with SP decreasing by 2, low byte at the new   *)
(* SP and high byte at SP+1, and set PC to the call target or to 8n; a     *)
(* CALL not taken advances PC by 3 and leaves SP and memory unchanged.     *)
C15_CallAndRestart ==
  [][PlainStep =>
       LET i == obs'.instr
           m == Machine(cpu, bus)
       IN /\ (i[1] = "CALL" /\ jump_condition(m, i[2])) =>
               /\ cpu'.sp = wrapping_sub16(cpu.sp, 2)
               /\ StackedAt(bus', cpu'.sp, wrapping_add16(cpu.pc, 3))
               /\ cpu'.pc = read_next_word(m)
          /\ (i[1] = "CALL" /\ ~jump_condition(m, i[2])) =>
               /\ cpu'.pc = wrapping_add16(cpu.pc, 3)
               /\ cpu'.sp = cpu.sp
               /\ SameMemory(bus, bus')
          /\ i[1] = "RST" =>
               /\ cpu'.sp = wrapping_sub16(cpu.sp, 2)
               /\ StackedAt(bus', cpu'.sp, wrapping_add16(cpu.pc, 1))
               /\ cpu'.pc = obs'.opcode - \hC7]_vars

\* the operand byte read as a signed 8-bit value
Signed8(byte) == IF byte < 128 THEN byte ELSE byte - 256

(* C16: a taken JR sets PC to (PC + 2 + e) mod 2^16 for the signed operand *)
(* e, for every e from -128 to 127 and every PC, and never stops the core; *)
(* a JR not taken sets PC to PC + 2.                                       *)
C16_RelativeJump ==
  [][LET m == Machine(cpu, bus)
         i == from_byte(read_byte(bus, cpu.pc), FALSE)
     IN (fatal = "none" /\ fatal' # "bus access" /\ cpu.pc < \hFFFF
           /\ i # None /\ i[1] = "JR" /\ obs'.vectors = <<>>) =>
          /\ obs'.op = "step"
          /\ cpu'.pc = IF jump_condition(m, i[2])
                         THEN (cpu.pc + 2 + Signed8(read_next_byte(m)) + 65536) % 65536
                         ELSE wrapping_add16(cpu.pc, 2)]_vars

(* C12: with the LCD on and starting at the boundary between V-blank and   *)
(* the OAM scan of line 0, LY stays within 0..153 and does not return to 0 *)
(* before 70,224 cycles have been stepped; after exactly 70,224 cycles LY  *)
(* is 0 again, having returned there once, and each of the 144 visible     *)
(* lines has been rendered exactly once.                                   *)
C12_FrameTiming ==
  probe.op = "lcd" =>
    /\ bus.gpu.lcd_y_coordinate \in 0..153
    /\ probe.elapsed < ONE_FRAME_IN_CYCLES => probe.resets = 0
    /\ probe.elapsed = ONE_FRAME_IN_CYCLES =>
         /\ bus.gpu.lcd_y_coordinate = 0
         /\ probe.resets = 1
         /\ \A line \in 0..143 : Load(probe.rendered, 0, line) = 1

(* C13: a timer increment that overflows the counter from 0xFF reloads the *)
(* counter with the modulo and sets the Timer bit of IF; from accumulator  *)
(* 0 with modulo 128, counter 255 and period 1024 a single step(1024) of   *)
(* the running timer yields counter 128 and IF.Timer = 1.                  *)
C13_TimerOverflow ==
  [][probe'.op = "step" =>
       /\ (bus.timer.active /\ bus.timer.value = 255
             /\ bus'.timer.cycles < bus.timer.cycles + probe'.cycles) =>
            /\ bus'.timer.value = bus.timer.modulo
            /\ bus'.interrupt_flags.timer_interrupt
       /\ (bus.timer = [frequency |-> "F4096", cycles |-> 0, value |-> 255,
                        modulo |-> 128, active |-> TRUE]
             /\ probe'.cycles = 1024) =>
            /\ bus'.timer.value = 128
            /\ bus'.interrupt_flags.timer_interrupt]_vars

\* the counter after n increments, reloaded with the modulo on overflow
RECURSIVE AfterTicks(_, _, _)
AfterTicks(value, modulo, n) ==
  IF n = 0 THEN value
  ELSE AfterTicks(IF value = 255 THEN modulo ELSE value + 1, modulo, n - 1)

(* C14: a step(cycles) of the running timer adds the cycles to the         *)
(* accumulator and increments the counter once for each full period the    *)
(* accumulator then holds, leaving the accumulator below the period; a     *)
(* step of the stopped timer changes neither accumulator nor counter and   *)
(* sets no flag.                                                           *)
C14_TimerAccumulates ==
  [][probe'.op = "step" =>
       LET t == bus.timer
           total == t.cycles + probe'.cycles
           period == in_ticks(t.frequency)
       IN IF t.active
            THEN /\ bus'.timer.cycles = total % period
                 /\ bus'.timer.cycles < period
                 /\ bus'.timer.value = AfterTicks(t.value, t.modulo, total \div period)
            ELSE /\ bus'.timer = t
                 /\ bus'.interrupt_flags.timer_interrupt
                      = bus.interrupt_flags.timer_interrupt]_vars

\* the addresses of the cartridge area
InRom(address) == address >= ROM_BANK_START /\ address <= ROM_SWITCHABLE_BANK_END

(* C17: a write_byte to an address in 0x0000-0x7FFF is accepted and has no *)
(* observable effect: every address reads after the write as before it,    *)
(* and the memories a later read is served from are unchanged.             *)
C17_RomWritesInert ==
  [][(probe'.op = "write_byte" /\ InRom(probe'.address)) =>
       /\ fatal' = "none"
       /\ \A a \in MemAddresses :
            ~read_panics(a) => read_byte(bus', a) = read_byte(bus, a)
       /\ SameMemory(bus, bus')]_vars

\* the addresses of the I/O register window
InIo(address) == address >= IO_REGISTERS_START /\ address <= IO_REGISTERS_END
InUnused(address) == address >= UNUSED_START /\ address <= UNUSED_END

(* C18: no read and no write of an address outside the I/O window is       *)
(* fatal; a read in the unusable range 0xFEA0-0xFEFF returns 0xFF and a    *)
(* write there changes nothing.                                            *)
C18_EveryAddressDecodes ==
  [][probe'.op \in {"read_byte", "write_byte"} =>
       /\ ~InIo(probe'.address) => fatal' = "none"
       /\ (probe'.op = "read_byte" /\ InUnused(probe'.address)) => probe'.byte = \hFF
       /\ (probe'.op = "write_byte" /\ InUnused(probe'.address)) => bus' = bus]_vars

\* the byte ROM bank 0 holds at address: the cartridge's, unless written over
RomBankByte(b, address) == Load(b.rom_bank, ROM_FILL, address)

C20_Divider ==
  [][/\ probe'.op = "step" =>
          bus'.divider.value = (bus.divider.value + probe'.byte) % 256
     /\ (probe'.op = "read_byte" /\ probe'.address = \hFF04) =>
          fatal' = "none" /\ probe'.byte = bus.divider.value
     /\ (probe'.op = "write_byte" /\ probe'.address = \hFF04) =>
          fatal' = "none" /\ bus'.divider.value = 0]_vars

\* with the timer running, step(300) moved the divider from 0 to 44
C20_Witness ==
  /\ probe.op = "step" /\ probe.byte = 300
  /\ bus.timer.active
  /\ bus.divider.value = 44
  /\ read_byte(bus, \hFF04) = 44
---------------------------------------------------------------------------
(* The arithmetic instructions *)

\* the state after one arithmetic instruction of the named family
AluExecuted(family) == probe.op = "executed" /\ probe.family = family

\* C23: for every A, operand and incoming carry c (counted only by ADC and
\* SBC), ADD and ADC leave (A + operand + c) mod 256 in A with Z = result is
\* zero, N = 0, H = the low nibbles plus c exceed 0xF, C = the sum exceeds
\* 0xFF; SUB, SBC and CP compute (A - operand - c) mod 256 (CP leaves A
\* unchanged) with Z = result is zero, N = 1, H = low nibble of A below low
\* nibble of the operand plus c, C = A below operand plus c.
C23_AddSubCompare ==
  AluExecuted("arithmetic") =>
    LET a == prev.regs0.a
        operand == prev.regs0.b
        name == probe.instruction[1]
        c == IF name \in {"ADC", "SBC"} /\ prev.regs0.f.carry THEN 1 ELSE 0
        f == cpu.registers.f
        sum == (a + operand + c) % 256
        difference == (a - operand - c + 512) % 256
    IN IF name \in {"ADD", "ADC"}
         THEN /\ cpu.registers.a = sum
              /\ f.zero = (sum = 0)
              /\ ~f.subtract
              /\ f.half_carry = ((a % 16) + (operand % 16) + c > 15)
              /\ f.carry = (a + operand + c > 255)
         ELSE /\ cpu.registers.a = IF name = "CP" THEN a ELSE difference
              /\ f.zero = (difference = 0)
              /\ f.subtract
              /\ f.half_carry = (a % 16 < (operand % 16) + c)
              /\ f.carry = (a < operand + c)

\* ADC B with A = 0xFF, B = 0 and the carry set: only the carry-in overflows
C23_Witness ==
  /\ AluExecuted("arithmetic")
  /\ probe.instruction = <<"ADC", "B">>
  /\ prev.regs0.a = 255 /\ prev.regs0.b = 0 /\ prev.regs0.f.carry
  /\ cpu.registers.a = 0 /\ cpu.registers.f.carry /\ cpu.registers.f.zero

\* C24: ADD HL,rr sets HL to (HL + rr) mod 2^16, leaves Z unchanged, clears
\* N, sets H exactly when there is a carry out of bit 11 and sets C exactly
\* when there is a carry out of bit 15.
C24_AddHl ==
  AluExecuted("addhl") =>
    LET hl == get_hl(prev.regs0)
        rr == IF probe.instruction[2] = "HL" THEN hl ELSE prev.sp0
        f == cpu.registers.f
    IN /\ get_hl(cpu.registers) = (hl + rr) % 65536
       /\ f.zero = prev.regs0.f.zero
       /\ ~f.subtract
       /\ f.half_carry = ((hl % 4096) + (rr % 4096) > 4095)
       /\ f.carry = (hl + rr > 65535)

\* C25: for every A and every N, H, C, DAA adds 0x60 and sets C when N = 0
\* and (C = 1 or A > 0x99), adds 0x06 when N = 0 and (H = 1 or the low nibble
\* of A exceeds 9); when N = 1 it subtracts 0x66 if C and H, else 0x60 if C,
\* else 0x06 if H; afterwards H is clear, Z tells whether the adjusted value
\* is zero, N is unchanged, and C stays set on the N = 1 path with C = 1.
C25_DecimalAdjust ==
  AluExecuted("daa") =>
    LET a == prev.regs0.a
        f0 == prev.regs0.f
        f == cpu.registers.f
        high == f0.carry \/ a > 153
        low == f0.half_carry \/ a % 16 > 9
        adjusted ==
          IF ~f0.subtract
            THEN (a + (IF high THEN 96 ELSE 0) + (IF low THEN 6 ELSE 0)) % 256
          ELSE IF f0.carry /\ f0.half_carry THEN (a - 102 + 256) % 256
          ELSE IF f0.carry THEN (a - 96 + 256) % 256
          ELSE IF f0.half_carry THEN (a - 6 + 256) % 256
          ELSE a
    IN /\ cpu.registers.a = adjusted
       /\ ~f.half_carry
       /\ f.zero = (adjusted = 0)
       /\ f.subtract = f0.subtract
       /\ (~f0.subtract /\ high => f.carry)
       /\ (f0.subtract /\ f0.carry => f.carry)

\* DAA after an addition left 0x9A with no flag set: both corrections apply,
\* the result is zero and the carry is set
C25_Witness ==
  /\ AluExecuted("daa")
  /\ prev.regs0.a = 154 /\ prev.regs0.f = FlagsRegister_new
  /\ cpu.registers.a = 0 /\ cpu.registers.f.carry /\ cpu.registers.f.zero

---------------------------------------------------------------------------
(* Undefined opcodes *)

\* the next step() fetches an unprefixed opcode that has no instruction
FetchesUndefined ==
  /\ fatal = "none"
  /\ ~read_panics(cpu.pc)
  /\ read_byte(bus, cpu.pc) \in IllegalOpcodes

\* C26: a step() that fetches one of the eleven illegal unprefixed opcodes
\* ends in a fatal stop: nothing is executed, PC, SP, the registers and
\* memory keep their values, the peripherals are not ticked, and after the
\* stop no step changes the machine.
C26_UndefinedOpcodeStops ==
  [][/\ FetchesUndefined =>
          /\ fatal' = "unknown instruction"
          /\ cpu' = cpu
          /\ bus' = bus
     /\ fatal # "none" => (cpu' = cpu /\ bus' = bus /\ fatal' = fatal)]_vars

\* the core has stopped on an undefined opcode after starting the timer
C26_Witness ==
  /\ fatal = "unknown instruction"
  /\ obs.op = "panic"
  /\ read_byte(bus, cpu.pc) \in IllegalOpcodes
  /\ bus.timer.active
  /\ nsteps = 3

---------------------------------------------------------------------------
(* The interrupt registers, LY and the palettes *)

\* C21: a bit of IF that is set stays set across a bus step: the step merges
\* what the peripherals assert into IF and clears no pending bit.
C21_PendingBitsPersist ==
  [][probe'.op = "step" =>
       \A n \in 0..4 :
         Bit(Interrupts_to_byte(bus.interrupt_flags), n) = 1
           => Bit(Interrupts_to_byte(bus'.interrupt_flags), n) = 1]_vars

\* the interrupt register behind an address
InterruptRegister(b, address) ==
  IF address = ENABLE_INTERRUPTS THEN b.interrupts_enabled ELSE b.interrupt_flags

\* C22: IE (0xFFFF) and IF (0xFF0F) are 5-bit fields: a write of b stores
\* b & 0x1F, and a read returns the five stored bits with bits 5..7 set.
C22_FiveBitRegisters ==
  [][probe'.address \in {\hFF0F, ENABLE_INTERRUPTS} =>
       /\ probe'.op = "write_byte" =>
            Interrupts_to_byte(InterruptRegister(bus', probe'.address))
              = BitAnd(probe'.byte, \h1F)
       /\ probe'.op = "read_byte" =>
            probe'.byte
              = BitOr(Interrupts_to_byte(InterruptRegister(bus, probe'.address)), \hE0)]_vars

\* C27: a read of 0xFF44 returns LY; a write of any byte to 0xFF44 is
\* ignored: it is not fatal and leaves LY and the rest of the bus unchanged.
C27_LyReadOnly ==
  [][probe'.address = \hFF44 =>
       /\ probe'.op = "read_byte" =>
            fatal' = "none" /\ probe'.byte = bus.gpu.lcd_y_coordinate
       /\ probe'.op = "write_byte" => fatal' = "none" /\ bus' = bus]_vars

\* the palette behind a palette register
PaletteAt(b, address) ==
  CASE address = \hFF47 -> b.gpu.background_window_palette
    [] address = \hFF48 -> b.gpu.obj_0_palette
    [] address = \hFF49 -> b.gpu.obj_1_palette

\* the shade of a 2-bit palette entry
Shade(entry) ==
  CASE entry = 0 -> 255 [] entry = 1 -> 192 [] entry = 2 -> 96 [] entry = 3 -> 0

\* C28: after a write of b to 0xFF47, 0xFF48 or 0xFF49 entry k of that
\* palette is the shade of (b >> 2k) & 3, with the shades 255, 192, 96 and 0
\* for 0, 1, 2 and 3, for every byte b.
C28_PaletteLsbFirst ==
  (probe.op = "write_byte" /\ probe.address \in PaletteRegisters) =>
    \A k \in 0..3 :
      PaletteAt(bus, probe.address)[k + 1] = Shade((probe.byte \div (4 ^ k)) % 4)

\* the byte of the test write_palette_data written to the object palette 1
C28_Witness ==
  /\ probe.op = "write_byte" /\ probe.address = \hFF49 /\ probe.byte = 252
  /\ bus.gpu.obj_1_palette = <<255, 0, 0, 0>>
  /\ bus.gpu.obj_0_palette = Palette_new

---------------------------------------------------------------------------
(* The LCD mode machine and LY *)

\* the cycles a mode lasts; V-blank is counted line by line
ModeDuration(mode) ==
  CASE mode = "OAMAccess" -> 80
    [] mode = "VRAMAccess" -> 172
    [] mode = "HBlank" -> 200
    [] mode = "VBlank" -> 456

C30_LyRange ==
  /\ bus.gpu.lcd_y_coordinate \in 0..153
  /\ [][/\ bus'.gpu.lcd_y_coordinate \in 0..153
        /\ \/ bus'.gpu.lcd_y_coordinate = bus.gpu.lcd_y_coordinate
           \/ bus'.gpu.lcd_y_coordinate = bus.gpu.lcd_y_coordinate + 1
           \/ bus.gpu.lcd_y_coordinate = 153 /\ bus'.gpu.lcd_y_coordinate = 0]_vars

\* LY back at 0 after a frame in which the LCD was switched off, left off
\* for a step and switched on again
C30_Witness ==
  /\ probe.op = "step"
  /\ probe.writes = 3 /\ probe.idle = 1
  /\ bus.gpu.lcd_display_enabled
  /\ bus.gpu.lcd_y_coordinate = 0
  /\ probe.elapsed > 69000

---------------------------------------------------------------------------
(* The stack *)

\* C31: PUSH of a 16-bit value v writes the high byte first: v >> 8 goes to
\* SP-1 and then v & 0xFF to SP-2, which is the new SP; POP is the mirror
\* image: the low byte is read at SP, the high byte at SP+1 and SP grows by 2.
C31_PushPopOrder ==
  [][PlainStep =>
       LET i == obs'.instr IN
       /\ i[1] = "PUSH" =>
            LET v == Pair(cpu.registers, i[2])
                s1 == wrapping_sub16(cpu.sp, 1)
                s2 == wrapping_sub16(cpu.sp, 2)
            IN /\ cpu'.sp = s2
               /\ SameMemory(write_byte(write_byte(bus, s1, v \div 256), s2, v % 256), bus')
               /\ (PlainStorage(s1) /\ PlainStorage(s2)) =>
                    /\ read_byte(bus', s1) = v \div 256
                    /\ read_byte(bus', s2) = v % 256
       /\ i[1] = "POP" =>
            LET low == read_byte(bus, cpu.sp)
                high == read_byte(bus, wrapping_add16(cpu.sp, 1))
            IN /\ cpu'.sp = wrapping_add16(cpu.sp, 2)
               /\ Pair(cpu'.registers, i[2]) =
                    IF i[2] = "AF" THEN high * 256 + LowNibbleCleared(low)
                    ELSE high * 256 + low]_vars

\* PUSH HL with HL = 0x80F0 and SP = 0xC002 left 0x80 at 0xC001 and 0xF0 at
\* 0xC000
C31_Witness ==
  /\ Stepped
  /\ obs.instr = <<"PUSH", "HL">> /\ obs.sp0 = \hC002
  /\ get_hl(obs.regs0) = \h80F0
  /\ cpu.sp = \hC000
  /\ read_byte(bus, \hC001) = \h80 /\ read_byte(bus, \hC000) = \hF0


\* palette index of a cached tile pixel
PixelIndex(value) ==
  CASE value = "Zero" -> 0 [] value = "One" -> 1
    [] value = "Two" -> 2 [] value = "Three" -> 3

\* the cached row of a tile
TileRowAt(b, tile, row) == Load(b.gpu.tile_set, TileRow_default, <<tile, row>>)

VramWritten == probe'.op = "write_byte" /\ probe'.address \in \h8000..\h9FFF

\* C32: after a write to tile data (0x8000..0x97FF) the cached row of tile
\* (a - 0x8000) / 16, row ((a - 0x8000) mod 16) / 2 is the decode of the two
\* bytes video RAM now holds for that row (pixel p: 2 * bit (7 - p) of the odd
\* byte + bit (7 - p) of the even byte), and every other cached row is as before;
\* a write at 0x9800 or above stores the byte and leaves the cache alone
C32_TileCacheFollowsVram ==
  [][VramWritten =>
       LET a == probe'.address
           off == a - \h8000
           tile == off \div 16
           row == (off % 16) \div 2
           even == \h8000 + tile * 16 + row * 2
           lo == read_byte(bus', even)
           hi == read_byte(bus', even + 1)
       IN /\ read_byte(bus', a) = probe'.byte
          /\ a <= \h97FF =>
               /\ \A p \in 0..7 :
                    PixelIndex(TileRowAt(bus', tile, row)[p + 1]) =
                      2 * Bit(hi, 7 - p) + Bit(lo, 7 - p)
               /\ \A k \in (DOMAIN bus.gpu.tile_set \cup DOMAIN bus'.gpu.tile_set)
                            \ {<<tile, row>>} :
                    TileRowAt(bus', k[1], k[2]) = TileRowAt(bus, k[1], k[2])
          /\ a >= \h9800 => bus'.gpu.tile_set = bus.gpu.tile_set]_vars

C32_Witness ==
  /\ probe.op = "write_byte" /\ probe.address = \h8001 /\ probe.byte = \h3C
  /\ read_byte(bus, \h8000) = \hA5
  /\ TileRowAt(bus, 0, 0) =
       <<"One", "Zero", "Three", "Two", "Two", "Three", "Zero", "One">>

OamWritten == probe'.op = "write_byte" /\ probe'.address \in \hFE00..\hFE9F

\* the decoded entry of an object
ObjectAt(b, n) == Load(b.gpu.obj_data, ObjectData_default, n)

\* C33: a write of v to 0xFE00 + i (i < 160) updates in object i / 4 the field
\* of byte i mod 4 (0: y = v - 16, 1: x = v - 8, 2: tile = v, 3: palette = bit 4,
\* horizontal flip = bit 5, vertical flip = bit 6, priority = bit 7), the address
\* reads back v, and every other entry and field is unchanged
C33_OamDecode ==
  [][OamWritten =>
       LET i == probe'.address - \hFE00
           v == probe'.byte
           n == i \div 4
           old == ObjectAt(bus, n)
           expected ==
             CASE i % 4 = 0 -> [old EXCEPT !.y = v - 16]
               [] i % 4 = 1 -> [old EXCEPT !.x = v - 8]
               [] i % 4 = 2 -> [old EXCEPT !.tile = v]
               [] i % 4 = 3 ->
                    [old EXCEPT !.palette = IF Bit(v, 4) = 1 THEN "One" ELSE "Zero",
                                !.flip_x = (Bit(v, 5) = 1),
                                !.flip_y = (Bit(v, 6) = 1),
                                !.priority = (Bit(v, 7) = 1)]
       IN /\ ObjectAt(bus', n) = expected
          /\ read_byte(bus', probe'.address) = v
          /\ \A k \in 0..(OAM_NUMBER_OF_OBJECTS - 1) :
               k # n => ObjectAt(bus', k) = ObjectAt(bus, k)
          /\ \A j \in 0..159 :
               j # i => Load(bus'.gpu.oam, RAM_FILL, j) = Load(bus.gpu.oam, RAM_FILL, j)]_vars

C33_Witness ==
  /\ probe.op = "write_byte" /\ probe.address = \hFE07 /\ probe.byte = \h50
  /\ ObjectAt(bus, 1).palette = "One" /\ ObjectAt(bus, 1).flip_y
  /\ ~ObjectAt(bus, 1).flip_x /\ ~ObjectAt(bus, 1).priority
  /\ ObjectAt(bus, 1).y = -16

\* the number a packed-BCD byte stands for, and the packed-BCD byte of a
\* number below 100
BcdValue(b) == (b \div 16) * 10 + (b % 16)
BcdByte(n) == (n \div 10) * 16 + (n % 10)

\* C37: for packed-BCD bytes x and y, ADD A,y with A = x followed by DAA leaves
\* the packed-BCD byte of (x + y) mod 100 in A, C set exactly when the decimal
\* sum is 100 or more, and H clear
C37_BcdAddition ==
  probe.op = "adjusted" =>
    LET sum == BcdValue(prev.regs0.a) + BcdValue(prev.regs0.b) IN
    /\ cpu.registers.a = BcdByte(sum % 100)
    /\ cpu.registers.f.carry = (sum >= 100)
    /\ ~cpu.registers.f.half_carry

C37_Witness ==
  /\ probe.op = "adjusted"
  /\ prev.regs0.a = \h58 /\ prev.regs0.b = \h67
  /\ cpu.registers.a = \h25 /\ cpu.registers.f.carry

\* the state after one CB-prefixed rotate or shift
ShiftExecuted == probe.op = "executed" /\ probe.family = "shift"

\* the operand of the instruction after it ran
ShiftResult ==
  IF probe.target = "HLI" THEN read_byte(bus, ShiftAddress)
  ELSE Reg8(cpu.registers, probe.target)

\* C36: for every operand v and incoming carry c, RLC, RRC, RL, RR, SLA, SRA and
\* SRL leave the standard result (RL and RR shift c in, SRA keeps bit 7, SRL and
\* SLA shift 0 in) with Z = result is zero, N = 0, H = 0 and C = the bit
\* shifted out
C36_RotatesAndShifts ==
  ShiftExecuted =>
    LET v == probe.value
        c == IF prev.regs0.f.carry THEN 1 ELSE 0
        op == probe.instruction[1]
        left == (2 * v) % 256
        right == v \div 2
        expected ==
          CASE op = "RLC" -> left + (v \div 128)
            [] op = "RRC" -> right + 128 * (v % 2)
            [] op = "RL" -> left + c
            [] op = "RR" -> right + 128 * c
            [] op = "SLA" -> left
            [] op = "SRA" -> right + 128 * (v \div 128)
            [] op = "SRL" -> right
        out == IF op \in {"RLC", "RL", "SLA"} THEN v \div 128 ELSE v % 2
    IN /\ ShiftResult = expected
       /\ cpu.registers.f = [zero |-> expected = 0, subtract |-> FALSE,
                             half_carry |-> FALSE, carry |-> out = 1]

C36_Witness ==
  /\ ShiftExecuted
  /\ probe.instruction = <<"RR", "HLI">> /\ probe.value = \h01
  /\ prev.regs0.f.carry /\ read_byte(bus, ShiftAddress) = \h80
  /\ cpu.registers.f.carry /\ ~cpu.registers.f.zero

Rendered == probe.op = "rendered"

\* C35: with the background on, for every SCX, SCY and visible LY, pixel x of
\* the line comes from the tile-map cell of row ((LY + SCY) mod 256) / 8 and
\* column ((x + SCX) mod 256) / 8, so a line that crosses the right edge of the
\* map continues at the left of the same row, and no read of the renderer lies
\* outside the 8 KiB of video RAM
C35_BackgroundWraps ==
  (Rendered /\ bus.gpu.background_display_enabled) =>
    LET g == bus.gpu
        map == IF g.background_tile_map = "Ox9800" THEN \h1800 ELSE \h1C00
        y == (g.lcd_y_coordinate + g.scroll_y) % 256
    IN /\ ~probe.screen.panics
       /\ \A x \in 0..(SCREEN_WIDTH - 1) :
            LET column == ((x + g.scroll_x) % 256) \div 8
                cell == map + (y \div 8) * 32 + column
                tile == Load(g.video_ram, RAM_FILL, cell)
            IN /\ probe.cells[x] = cell
               /\ probe.cells[x] < \h2000
               /\ x \in DOMAIN probe.screen.background
               /\ probe.screen.background[x] =
                    tile_value_to_background_color(
                      g, TileRowAt(bus, tile, y % 8)[((x + g.scroll_x) % 8) + 1])

\* C34: with objects on, a pixel of an object on the current line is stored in
\* the framebuffer exactly when its palette index is not 0 and either the
\* object's background-priority attribute is clear or the background pixel under
\* it has palette index 0
C34_ObjectPriority ==
  (Rendered /\ bus.gpu.obj_display_enable /\ fatal = "none") =>
    LET g == bus.gpu IN
    \A x \in 0..(SCREEN_WIDTH - 1) :
      x \in DOMAIN probe.screen.objects <=>
        \E n \in DOMAIN g.obj_data :
          LET obj == g.obj_data[n] IN
          /\ object_on_line(g, obj)
          /\ x - obj.x \in 0..7
          /\ object_pixel(g, obj, x - obj.x) # "Zero"
          /\ (~obj.priority \/ probe.screen.scanline[x] = "Zero")

\* C39: in every reachable state the mode is V-blank exactly when LY >= 144;
\* so the step that leaves VRAMAccess for HBlank, the only one that calls the
\* scanline renderer, calls it with LY < 144, and every index of the
\* framebuffer the background pass stores to lies within its
\* 160 * 144 * 4 bytes
C39_RendersVisibleLines ==
  /\ (bus.gpu.lcd_mode = "VBlank") <=> (bus.gpu.lcd_y_coordinate >= SCREEN_HEIGHT)
  /\ [][(probe'.op = "step" /\ renders_scanline(bus.gpu, probe'.cycles)) =>
          /\ bus'.gpu.lcd_mode = "HBlank"
          /\ bus'.gpu.lcd_y_coordinate < SCREEN_HEIGHT
          /\ \A line_x \in background_drawn(bus'.gpu) :
               /\ screen_buffer_offset(bus'.gpu, line_x) >= 0
               /\ screen_buffer_offset(bus'.gpu, line_x) + 3
                    < SCREEN_WIDTH * SCREEN_HEIGHT * 4]_vars

\* the last visible line just rendered with the background on
C39_Witness ==
  /\ probe.op = "step"
  /\ bus.gpu.lcd_mode = "HBlank" /\ bus.gpu.cycles < 12
  /\ bus.gpu.lcd_y_coordinate = 143
  /\ bus.gpu.background_display_enabled
  /\ screen_buffer_offset(bus.gpu, SCREEN_WIDTH - 1) + 3 = 92159
\* the specification of the whole core
Init == InitCpu
Next == NextCpu
Spec == SpecCpu

====
